---- MODULE Spec2Model ----
(***************************************************************************)
(* ServVIA health-query pipeline (farmer-chat): the medical safety filter  *)
(* (medical/remedy_filter.py), the content retriever                       *)
(* (retrieval/content_retrieval.py), the endpoint                          *)
(* get_answer_for_text_query (api/servvia_endpoint.py) and the RAG entry   *)
(* point process_query / execute_rag_pipeline.                             *)
(*                                                                         *)
(* Text is a sequence of atoms.  An atom is a run of word characters or a  *)
(* run of non-word characters, so a regular-expression word boundary (\b)  *)
(* can only fall between two atoms, and Python's `in` on strings is a      *)
(* contiguous-subsequence test.  Fixed message templates are cut into       *)
(* atoms so that every ingredient name inside them is an atom of its own.  *)
(***************************************************************************)
EXTENDS Integers, Sequences, FiniteSets, TLC

VARIABLES
    mode,        \* which operation the behaviour exercises
    pc,          \* position of the request / call
    flags,       \* module-level capability flags set by the conditional imports
    profileStore, \* the medical profile the store holds for the user, and its version
    inp,         \* the arguments of the call and what the collaborators answer
    st,          \* local variables of the running handler
    out          \* what the call returned

vars == <<mode, pc, flags, profileStore, inp, st, out>>

(***************************************************************************)
(* Bounds                                                                  *)
(***************************************************************************)
MaxChunks == 2        \* longest chunk list handed to the filter on its own

(***************************************************************************)
(* Text                                                                    *)
(***************************************************************************)
NonWordAtoms == {" ", ", ", "-", "\n\n", "1. ", ": ", "'", "! ", "..."}

IsWord(a) == a \notin NonWordAtoms

\* str.lower() on one atom
LowerAtom(a) ==
    CASE a = "Honey" -> "honey"
      [] a = "Add" -> "add"
      [] a = "Drink" -> "drink"
      [] a = "Peanut" -> "peanut"
      [] a = "Jwara" -> "jwara"
      [] OTHER -> a

\* str.lower()
Lower(t) == [i \in 1..Len(t) |-> LowerAtom(t[i])]

\* whether a word boundary (\b) lies just before position p of t (1..Len(t)+1)
WordBoundary(t, p) ==
    LET before == IF p > 1 THEN IsWord(t[p - 1]) ELSE FALSE
        after == IF p <= Len(t) THEN IsWord(t[p]) ELSE FALSE
    IN before # after

\* `needle in haystack` for Python strings
Contains(haystack, needle) ==
    \E i \in 1..(Len(haystack) - Len(needle) + 1) :
        SubSeq(haystack, i, i + Len(needle) - 1) = needle

\* s[:n]
Prefix(s, n) == SubSeq(s, 1, IF Len(s) < n THEN Len(s) ELSE n)

RECURSIVE JoinText(_, _)
\* sep.join(parts)
JoinText(parts, sep) ==
    IF Len(parts) = 0 THEN <<>>
    ELSE IF Len(parts) = 1 THEN parts[1]
    ELSE parts[1] \o sep \o JoinText(Tail(parts), sep)

(***************************************************************************)
(* Chunks and profiles                                                     *)
(***************************************************************************)
\* A retrieved item: a Python str (its atoms) or some other JSON value
\* (a number, an object), on which str methods raise.
StrChunk(atoms) == [str |-> TRUE, atoms |-> atoms]

NonStrChunk == [str |-> FALSE, atoms |-> <<>>]

\* What get_medical_profile_by_user_id returns: None, or the profile dict.
NoProfile ==
    [present |-> FALSE, has_diabetes |-> FALSE, has_hypertension |-> FALSE,
     has_kidney_disease |-> FALSE, is_pregnant |-> FALSE, is_breastfeeding |-> FALSE,
     has_heart_disease |-> FALSE, has_allergies |-> FALSE, allergies |-> <<>>]

\* `if not profile` / `if profile`
Truthy(profile) == profile.present

(***************************************************************************)
(* medical/remedy_filter.py                                                *)
(***************************************************************************)
CONTRAINDICATED_INGREDIENTS ==
    [diabetes |->
        {<<"sugar">>, <<"honey">>, <<"jaggery">>, <<"maple", " ", "syrup">>,
         <<"sweet">>, <<"dates">>, <<"raisins">>, <<"figs">>, <<"glucose">>,
         <<"candy">>, <<"brown", " ", "sugar">>},
     hypertension |->
        {<<"salt">>, <<"sodium">>, <<"pickle">>, <<"soy", " ", "sauce">>,
         <<"processed", " ", "meat">>, <<"cheese">>, <<"bacon">>, <<"sausage">>,
         <<"canned", " ", "food">>, <<"salted">>, <<"brine">>},
     kidney_disease |->
        {<<"salt">>, <<"banana">>, <<"orange">>, <<"tomato">>, <<"potato">>,
         <<"dairy">>, <<"nuts">>, <<"seeds">>, <<"whole", " ", "grains">>,
         <<"avocado">>},
     pregnancy |->
        {<<"papaya">>, <<"pineapple">>, <<"raw", " ", "eggs">>,
         <<"unpasteurized">>, <<"alcohol">>, <<"caffeine">>,
         <<"raw", " ", "meat">>, <<"liver">>, <<"raw", " ", "fish">>},
     heart_disease |->
        {<<"salt">>, <<"butter">>, <<"ghee">>, <<"coconut", " ", "oil">>,
         <<"fried">>, <<"fatty", " ", "meat">>,
         <<"full", "-", "fat", " ", "dairy">>, <<"trans", " ", "fat">>}]

\* mutant of AllergiesListed: the flag alone, the list not looked at
AllergiesListedByFlag(profile) == profile.has_allergies

\* `profile.get('has_allergies') and profile.get('allergies')`
AllergiesListed(profile) == profile.has_allergies /\ Len(profile.allergies) > 0

\* mutant of AvoidIngredients: the allergy terms are taken as stored, not
\* lower-cased
AvoidIngredientsVerbatim(profile) ==
    (IF AllergiesListed(profile)
        THEN {profile.allergies[i] : i \in 1..Len(profile.allergies)}
        ELSE {})
    \cup (IF profile.has_diabetes THEN CONTRAINDICATED_INGREDIENTS.diabetes ELSE {})
    \cup (IF profile.has_hypertension THEN CONTRAINDICATED_INGREDIENTS.hypertension ELSE {})
    \cup (IF profile.has_kidney_disease THEN CONTRAINDICATED_INGREDIENTS.kidney_disease ELSE {})
    \cup (IF profile.is_pregnant THEN CONTRAINDICATED_INGREDIENTS.pregnancy ELSE {})
    \cup (IF profile.has_heart_disease THEN CONTRAINDICATED_INGREDIENTS.heart_disease ELSE {})

\* mutant of AvoidIngredients: the checks of lines 88-123 chained with elif,
\* so that only the first one that applies contributes
AvoidIngredientsFirstRuleOnly(profile) ==
    IF AllergiesListed(profile)
        THEN {Lower(profile.allergies[i]) : i \in 1..Len(profile.allergies)}
    ELSE IF profile.has_diabetes THEN CONTRAINDICATED_INGREDIENTS.diabetes
    ELSE IF profile.has_hypertension THEN CONTRAINDICATED_INGREDIENTS.hypertension
    ELSE IF profile.has_kidney_disease THEN CONTRAINDICATED_INGREDIENTS.kidney_disease
    ELSE IF profile.is_pregnant THEN CONTRAINDICATED_INGREDIENTS.pregnancy
    ELSE IF profile.has_heart_disease THEN CONTRAINDICATED_INGREDIENTS.heart_disease
    ELSE {}

\* avoid_ingredients as built by lines 85-123
AvoidIngredients(profile) ==
    (IF AllergiesListed(profile)
        THEN {Lower(profile.allergies[i]) : i \in 1..Len(profile.allergies)}
        ELSE {})
    \cup (IF profile.has_diabetes THEN CONTRAINDICATED_INGREDIENTS.diabetes ELSE {})
    \cup (IF profile.has_hypertension THEN CONTRAINDICATED_INGREDIENTS.hypertension ELSE {})
    \cup (IF profile.has_kidney_disease THEN CONTRAINDICATED_INGREDIENTS.kidney_disease ELSE {})
    \cup (IF profile.is_pregnant THEN CONTRAINDICATED_INGREDIENTS.pregnancy ELSE {})
    \cup (IF profile.has_heart_disease THEN CONTRAINDICATED_INGREDIENTS.heart_disease ELSE {})

\* warnings as appended by lines 89-123, in that order
FilterWarnings(profile) ==
    (IF AllergiesListed(profile)
        THEN << <<"Avoiding your allergies", ": ">> \o JoinText(profile.allergies, <<", ">>) >>
        ELSE <<>>)
    \o (IF profile.has_diabetes
        THEN << <<"Avoiding high", "-", "sugar", " ", "ingredients due to", " ", "diabetes">> >>
        ELSE <<>>)
    \o (IF profile.has_hypertension
        THEN << <<"Avoiding high", "-", "sodium", " ", "ingredients due to", " ", "hypertension">> >>
        ELSE <<>>)
    \o (IF profile.has_kidney_disease
        THEN << <<"Avoiding kidney", "-", "restricted ingredients">> >>
        ELSE <<>>)
    \o (IF profile.is_pregnant
        THEN << <<"Avoiding pregnancy", "-", "unsafe ingredients">> >>
        ELSE <<>>)
    \o (IF profile.has_heart_disease
        THEN << <<"Avoiding heart", "-", "harmful ingredients">> >>
        ELSE <<>>)

\* mutant of IngredientMatches: naive substring search, no word boundaries
IngredientMatchesSubstring(ingredient, chunk_lower) == Contains(chunk_lower, ingredient)

\* re.search(r'\b' + re.escape(ingredient) + r'\b', chunk_lower)
IngredientMatches(ingredient, chunk_lower) ==
    \E i \in 1..(Len(chunk_lower) - Len(ingredient) + 1) :
        /\ SubSeq(chunk_lower, i, i + Len(ingredient) - 1) = ingredient
        /\ WordBoundary(chunk_lower, i)
        /\ WordBoundary(chunk_lower, i + Len(ingredient))

\* mutant of HasContraindication: the chunk is matched without lower-casing
HasContraindicationCaseSensitive(chunk, avoid_ingredients) ==
    \E ingredient \in avoid_ingredients :
        IngredientMatches(ingredient, chunk.atoms)

\* has_contraindication after the inner loop of lines 138-144
HasContraindication(chunk, avoid_ingredients) ==
    \E ingredient \in avoid_ingredients :
        IngredientMatches(ingredient, Lower(chunk.atoms))

RECURSIVE SafeContentLowered(_, _)
\* mutant of SafeContent: chunk_lower is appended instead of chunk
SafeContentLowered(content_chunks, avoid_ingredients) ==
    IF content_chunks = <<>> THEN <<>>
    ELSE IF HasContraindication(Head(content_chunks), avoid_ingredients)
        THEN SafeContentLowered(Tail(content_chunks), avoid_ingredients)
        ELSE <<StrChunk(Lower(Head(content_chunks).atoms))>>
             \o SafeContentLowered(Tail(content_chunks), avoid_ingredients)

RECURSIVE SafeContent(_, _)
\* safe_content after the loop of lines 131-150
SafeContent(content_chunks, avoid_ingredients) ==
    IF content_chunks = <<>> THEN <<>>
    ELSE IF HasContraindication(Head(content_chunks), avoid_ingredients)
        THEN SafeContent(Tail(content_chunks), avoid_ingredients)
        ELSE <<Head(content_chunks)>> \o SafeContent(Tail(content_chunks), avoid_ingredients)

\* RemedyFilter.filter_content_by_medical_profile; `profile` is what the
\* profile store answers at line 70.  chunk.lower() raises AttributeError on
\* an item that is not a str, which leaves the method.
FilterContentByMedicalProfile(content_chunks, medical_db_available, profile) ==
    IF ~medical_db_available
        THEN [raised |-> FALSE, safe |-> content_chunks, warnings |-> <<>>]
    ELSE IF ~Truthy(profile)
        THEN [raised |-> FALSE, safe |-> content_chunks, warnings |-> <<>>]
    ELSE IF AvoidIngredients(profile) = {}
        THEN [raised |-> FALSE, safe |-> content_chunks, warnings |-> <<>>]
    ELSE IF \E i \in 1..Len(content_chunks) : ~content_chunks[i].str
        THEN [raised |-> TRUE, safe |-> <<>>, warnings |-> <<>>]
    ELSE [raised |-> FALSE,
          safe |-> SafeContent(content_chunks, AvoidIngredients(profile)),
          warnings |-> FilterWarnings(profile)]

\* `conditions` of generate_medical_disclaimer, lines 163-177
DisclaimerConditions(profile) ==
    (IF profile.has_diabetes THEN << <<"diabetes">> >> ELSE <<>>)
    \o (IF profile.has_hypertension THEN << <<"high blood pressure">> >> ELSE <<>>)
    \o (IF profile.has_heart_disease THEN << <<"heart condition">> >> ELSE <<>>)
    \o (IF profile.has_kidney_disease THEN << <<"kidney disease">> >> ELSE <<>>)
    \o (IF profile.is_pregnant THEN << <<"pregnancy">> >> ELSE <<>>)
    \o (IF AllergiesListed(profile)
        THEN << <<"allergies to", " ">> \o JoinText(profile.allergies, <<", ">>) >>
        ELSE <<>>)

\* RemedyFilter.generate_medical_disclaimer
GenerateMedicalDisclaimer(profile) ==
    IF ~Truthy(profile) THEN <<>>
    ELSE IF DisclaimerConditions(profile) # <<>>
        THEN <<"Medical Note", ": ", "Considering your", " ">>
             \o JoinText(DisclaimerConditions(profile), <<", ">>)
             \o <<", ", "I've personalized these recommendations to exclude potentially harmful ingredients.",
                  " ", "Always consult your healthcare provider before trying new remedies.">>
    ELSE <<>>

\* filter_remedies_by_medical_profile: the profile store is read once for the
\* disclaimer (line 211) and once more inside the filter (line 70).
FilterRemediesByMedicalProfile(content, medical_db_available, profile_for_disclaimer, profile_for_filter) ==
    LET profile == IF medical_db_available THEN profile_for_disclaimer ELSE NoProfile
        r == FilterContentByMedicalProfile(content, medical_db_available, profile_for_filter)
    IN [raised |-> r.raised,
        safe |-> r.safe,
        warnings |-> r.warnings,
        disclaimer |-> IF r.raised THEN <<>>
                       ELSE IF Truthy(profile) THEN GenerateMedicalDisclaimer(profile)
                       ELSE <<>>]

(***************************************************************************)
(* The safety filter on its own: SpecFilter draws a chunk list and a       *)
(* profile and calls filter_remedies_by_medical_profile once.              *)
(***************************************************************************)
HoneyTeaText == <<"Add", " ", "honey", " ", "to", " ", "tea", " ", "for", " ", "sore", " ", "throat">>

LemonWaterText == <<"Drink", " ", "warm", " ", "water", " ", "with", " ", "lemon">>

PeanutsTerm == <<"peanut", "s">>

FilterChunkPool ==
    {StrChunk(HoneyTeaText), StrChunk(LemonWaterText),
     StrChunk(<<"Honey", " ", "tea">>), StrChunk(<<"honey", "comb">>),
     StrChunk(<<"peanut", " ", "butter">>), StrChunk(<<"salt", " ", "water">>),
     StrChunk(<<"Peanut", "s", " ", "for", " ", "protein">>),
     NonStrChunk}

ChunkLists(pool, n) == UNION {[1..k -> pool] : k \in 0..n}

\* an allergy as the user typed it, with a capital letter
PeanutsTyped == <<"Peanut", "s">>

\* The profiles the store can hold.  create_medical_profile (line 119) and
\* update_medical_profile (line 175) set has_allergies whenever the list is
\* not empty; a list that fails to decrypt is read as [] under a true flag.
ProfilePool ==
    {NoProfile} \cup
    {p \in [present : {TRUE}, has_diabetes : BOOLEAN, has_hypertension : BOOLEAN,
            has_kidney_disease : BOOLEAN, is_pregnant : BOOLEAN, is_breastfeeding : BOOLEAN,
            has_heart_disease : BOOLEAN, has_allergies : BOOLEAN,
            allergies : {<<>>, <<PeanutsTerm>>, <<PeanutsTyped>>}] :
        p.allergies # <<>> => p.has_allergies}

\* the store with one of the profiles in it; profile_version is 1 after create
StoreStates(profiles) ==
    {[profile |-> p, version |-> IF p.present THEN 1 ELSE 0] : p \in profiles}

InitFilter ==
    /\ mode = "filter"
    /\ pc = "call"
    /\ flags \in [MEDICAL_DB_AVAILABLE : BOOLEAN]
    /\ profileStore \in StoreStates(ProfilePool)
    /\ inp \in [content : ChunkLists(FilterChunkPool, MaxChunks)]
    /\ st = <<>>
    /\ out = <<>>

\* one call of filter_remedies_by_medical_profile(content, user_id); the
\* profile store holds profileStore.profile for user_id during the call
FilterRemediesCall ==
    /\ mode = "filter"
    /\ pc = "call"
    /\ out' = FilterRemediesByMedicalProfile(inp.content, flags.MEDICAL_DB_AVAILABLE,
                                             profileStore.profile, profileStore.profile)
    /\ pc' = "done"
    /\ UNCHANGED <<mode, flags, profileStore, inp, st>>

NextFilter == FilterRemediesCall

SpecFilter == InitFilter /\ [][NextFilter]_vars

FilterDone == mode = "filter" /\ pc = "done"

AllStr(chunks) == \A i \in 1..Len(chunks) : chunks[i].str

RECURSIVE IsSubsequence(_, _)
\* a is obtained from b by deleting elements
IsSubsequence(a, b) ==
    IF a = <<>> THEN TRUE
    ELSE IF b = <<>> THEN FALSE
    ELSE IF Head(a) = Head(b) THEN IsSubsequence(Tail(a), Tail(b))
    ELSE IsSubsequence(a, Tail(b))

\* C3: whenever the filter returns, its safe chunks are a subsequence of the
\* chunks it was given: only input chunks, in input order, none inserted or
\* duplicated.
C3_SafeIsSubsequence ==
    (FilterDone /\ ~out.raised) => IsSubsequence(out.safe, inp.content)

\* C3 witness: a call that dropped some chunk and kept another
C3_Witness ==
    /\ FilterDone
    /\ ~out.raised
    /\ Len(inp.content) = 2
    /\ Len(out.safe) = 1

\* the chunk text holds the word "honey" in any letter case, between word
\* boundaries
MentionsHoneyWord(chunk) ==
    \E i \in 1..Len(chunk.atoms) :
        /\ chunk.atoms[i] \in {"honey", "Honey"}
        /\ (i = 1 \/ ~IsWord(chunk.atoms[i - 1]))
        /\ (i = Len(chunk.atoms) \/ ~IsWord(chunk.atoms[i + 1]))

DiabetesProfileRead ==
    /\ flags.MEDICAL_DB_AVAILABLE
    /\ profileStore.profile.present
    /\ profileStore.profile.has_diabetes

\* C4: for a profile with has_diabetes and a list of text chunks, no chunk
\* holding the word "honey" survives, some warning names diabetes, and the
\* disclaimer is non-empty and names diabetes; the profile {has_diabetes,
\* allergies ["peanuts"]} on ["Add honey to tea for sore throat", "Drink warm
\* water with lemon"] leaves exactly the second chunk.
C4_DiabetesDropsHoney ==
    (FilterDone /\ DiabetesProfileRead /\ AllStr(inp.content)) =>
        /\ ~out.raised
        /\ \A i \in 1..Len(out.safe) : ~MentionsHoneyWord(out.safe[i])
        /\ \E w \in 1..Len(out.warnings) : Contains(out.warnings[w], <<"diabetes">>)
        /\ out.disclaimer # <<>>
        /\ Contains(out.disclaimer, <<"diabetes">>)
        /\ (/\ profileStore.profile.allergies = <<PeanutsTerm>>
            /\ inp.content = <<StrChunk(HoneyTeaText), StrChunk(LemonWaterText)>>)
           => out.safe = <<StrChunk(LemonWaterText)>>

\* C4 witness: the scenario of the claim has been filtered
C4_Witness ==
    /\ FilterDone
    /\ DiabetesProfileRead
    /\ profileStore.profile.allergies = <<PeanutsTerm>>
    /\ inp.content = <<StrChunk(HoneyTeaText), StrChunk(LemonWaterText)>>
    /\ out.safe = <<StrChunk(LemonWaterText)>>

NothingToProtect ==
    \/ ~flags.MEDICAL_DB_AVAILABLE
    \/ ~profileStore.profile.present
    \/ /\ ~profileStore.profile.has_diabetes
       /\ ~profileStore.profile.has_hypertension
       /\ ~profileStore.profile.has_heart_disease
       /\ ~profileStore.profile.has_kidney_disease
       /\ ~profileStore.profile.is_pregnant
       /\ profileStore.profile.allergies = <<>>

\* C5: with no profile, or a profile with no true condition flag and no
\* allergies, the filter returns the input chunks unchanged, no warning and
\* an empty disclaimer.
C5_IdentityWithoutRestrictions ==
    (FilterDone /\ NothingToProtect) =>
        /\ ~out.raised
        /\ out.safe = inp.content
        /\ out.warnings = <<>>
        /\ out.disclaimer = <<>>

\* C5 witness: a present profile without restrictions met a chunk that a
\* diabetes profile would lose
C5_Witness ==
    /\ FilterDone
    /\ flags.MEDICAL_DB_AVAILABLE
    /\ profileStore.profile.present
    /\ NothingToProtect
    /\ Len(inp.content) > 0
    /\ inp.content[1] = StrChunk(HoneyTeaText)
    /\ out.safe = inp.content

(***************************************************************************)
(* retrieval/content_retrieval.py                                          *)
(***************************************************************************)
\* A Python value held in retrieved_content: None, a list of items, or a
\* JSON number / true.  A str value is held as the list of its one-character
\* strings: len, iteration, slicing, indexing and join treat the two alike.
NoneValue == [k |-> "none", items |-> <<>>]

ListValue(items) == [k |-> "list", items |-> items]

NumValue == [k |-> "num", items |-> <<>>]

\* a non-empty str, held as its characters: len() counts them and a loop
\* over it visits them one by one
StrValue(chars) == [k |-> "str", items |-> chars]

\* `if retrieved_content` / `if not retrieved_content`
TruthyValue(v) == v.k = "num" \/ (v.k \in {"list", "str"} /\ Len(v.items) > 0)

\* the texts appended by the loop of lines 132-139 over content_data['chunks']
RECURSIVE ChunkTexts(_)
ChunkTexts(entries) ==
    IF entries = <<>> THEN <<>>
    ELSE IF Head(entries).isdict /\ Head(entries).hasText
        THEN <<Head(entries).text>> \o ChunkTexts(Tail(entries))
        ELSE ChunkTexts(Tail(entries))

\* `total_score += score` raises TypeError when a kept entry's score is no number
ScoreRaises(entries) ==
    \E i \in 1..Len(entries) :
        entries[i].isdict /\ entries[i].hasText /\ ~entries[i].scoreNum

\* retrieve_from_farmstack_api: None, or what the payload parsing returns.
\* response.status: send_request raised / returned nothing / non-200 / 200.
RetrieveFromFarmstackApi(response) ==
    IF response.status = "raise" THEN NoneValue
    ELSE IF response.status \in {"none", "non200"} THEN NoneValue
    ELSE IF response.json = "invalid" THEN NoneValue
    ELSE IF response.json = "chunks_obj" THEN
        IF response.vtype = "num" THEN NoneValue          \* len(chunks) raises, caught at 193
        ELSE IF Len(response.entries) = 0 THEN NoneValue
        ELSE IF ScoreRaises(response.entries) THEN NoneValue
        ELSE IF ChunkTexts(response.entries) # <<>>
            THEN ListValue(ChunkTexts(response.entries))
        ELSE NoneValue
    ELSE IF response.json = "list" THEN ListValue(response.items)
    ELSE IF response.json = "keyed_obj" THEN
        IF response.key = "text" THEN
            IF response.vtype = "falsy" THEN NoneValue
            ELSE IF response.vtype = "num" THEN ListValue(<<NonStrChunk>>)
            ELSE IF response.vtype = "list" THEN ListValue(<<NonStrChunk>>)
            ELSE ListValue(response.items)                  \* [text]
        ELSE
            IF response.vtype = "falsy" THEN NoneValue
            ELSE IF response.vtype = "num" THEN NumValue
            ELSE IF Len(response.items) = 0 THEN NoneValue
            ELSE IF response.vtype = "str" THEN StrValue(response.items)
            ELSE ListValue(response.items)
    ELSE NoneValue                                          \* other object, scalar

\* an apply_medical_filtering that hands the chunks back as they came
ApplyMedicalFilteringUnfiltered(content_chunks, user_id_found, fl, profile_for_disclaimer, profile_for_filter) ==
    [content |-> content_chunks, warnings |-> <<>>, disclaimer |-> <<>>]

\* apply_medical_filtering: [content, warnings, disclaimer]
ApplyMedicalFiltering(content_chunks, user_id_found, fl, profile_for_disclaimer, profile_for_filter) ==
    IF ~fl.MEDICAL_FILTERING_AVAILABLE \/ ~user_id_found
        THEN [content |-> content_chunks, warnings |-> <<>>, disclaimer |-> <<>>]
    ELSE LET r == FilterRemediesByMedicalProfile(content_chunks, TRUE,
                      profile_for_disclaimer, profile_for_filter)
         IN IF r.raised
             THEN [content |-> content_chunks, warnings |-> <<>>, disclaimer |-> <<>>]
             ELSE [content |-> r.safe, warnings |-> r.warnings, disclaimer |-> r.disclaimer]

\* whether the content apply_medical_filtering hands back is the list built
\* by the filter's loop (remedy_filter.py:81-152) and not the object it was
\* given: the early returns of lines 63-77 and 125-127 and the except branch
\* of content_retrieval.py:236-240 hand back content_chunks itself
FilterBuiltNewList(content_chunks, user_id_found, fl, profile_for_filter) ==
    /\ fl.MEDICAL_FILTERING_AVAILABLE
    /\ user_id_found
    /\ ~FilterContentByMedicalProfile(content_chunks, TRUE, profile_for_filter).raised
    /\ Truthy(profile_for_filter)
    /\ AvoidIngredients(profile_for_filter) # {}

\* get_user_id_from_email: whether a user id (not None) comes back
GetUserIdFromEmail(fl, user_lookup) == fl.USER_MODEL_AVAILABLE /\ user_lookup = "found"

\* retrieved_content after the fallback step of lines 310-323
AfterLocalFallback(primary_value, fl, local) ==
    IF ~TruthyValue(primary_value) /\ fl.LOCAL_CONTENT_AVAILABLE
        THEN (IF local.outcome = "raise" THEN NoneValue
              ELSE IF local.outcome = "none" THEN NoneValue
              ELSE ListValue(local.items))
        ELSE primary_value

\* content_retrieval: the response map, or raised.  e is what the
\* collaborators answer: e.primary (the remote API), e.local (the local
\* corpus), e.user_lookup (User.get), e.profile1 / e.profile2 (the profile
\* store at the two reads of filter_remedies_by_medical_profile).
ContentRetrieval(e, fl, apply_medical_filter) ==
    LET user_id_found == apply_medical_filter /\ GetUserIdFromEmail(fl, e.user_lookup)
        primary_value == RetrieveFromFarmstackApi(e.primary)
        from_primary == TruthyValue(primary_value)
        fetched == AfterLocalFallback(primary_value, fl, e.local)
        from_local == ~from_primary /\ fl.LOCAL_CONTENT_AVAILABLE /\ TruthyValue(fetched)
        content_source == IF from_primary THEN "farmstack"
                          ELSE IF from_local THEN "local" ELSE "none"
        original_chunk_count == IF TruthyValue(fetched) THEN Len(fetched.items) ELSE 0
        filtering == TruthyValue(fetched) /\ apply_medical_filter /\ user_id_found
        f == ApplyMedicalFiltering(fetched.items, user_id_found, fl, e.profile1, e.profile2)
        retrieved_content ==
            IF filtering /\ FilterBuiltNewList(fetched.items, user_id_found, fl, e.profile2)
                THEN ListValue(f.content)
            ELSE fetched
    IN IF from_primary /\ primary_value.k = "num"
        THEN [raised |-> TRUE, retrieved_chunks |-> NoneValue, source |-> "none",
              medical_filtered |-> FALSE, medical_warnings |-> <<>>,
              medical_disclaimer |-> <<>>, original_chunk_count |-> 0,
              filtered_chunk_count |-> 0, user_id_found |-> user_id_found,
              success |-> FALSE, local_queried |-> FALSE]   \* len() of a number, line 305
        ELSE [raised |-> FALSE,
              retrieved_chunks |-> retrieved_content,
              source |-> content_source,
              medical_filtered |-> filtering,
              medical_warnings |-> IF filtering THEN f.warnings ELSE <<>>,
              medical_disclaimer |-> IF filtering THEN f.disclaimer ELSE <<>>,
              original_chunk_count |-> original_chunk_count,
              filtered_chunk_count |-> IF TruthyValue(retrieved_content)
                                       THEN Len(retrieved_content.items) ELSE 0,
              user_id_found |-> user_id_found,
              success |-> retrieved_content.k # "none" /\ Len(retrieved_content.items) > 0,
              local_queried |-> ~from_primary /\ fl.LOCAL_CONTENT_AVAILABLE]

\* retrieve_content_from_api: response.get("retrieved_chunks")
RetrieveContentFromApi(e, fl, apply_medical_filter) ==
    LET response == ContentRetrieval(e, fl, apply_medical_filter)
    IN [raised |-> response.raised, value |-> response.retrieved_chunks]

(***************************************************************************)
(* The retriever on its own: SpecRetrieval draws the answers of the remote *)
(* API, the local corpus, the user table and the profile store, and calls  *)
(* content_retrieval / retrieve_content_from_api once.                     *)
(***************************************************************************)
Response(status, json, key, vtype, entries, items) ==
    [status |-> status, json |-> json, key |-> key, vtype |-> vtype,
     entries |-> entries, items |-> items]

ChunkEntry(isdict, hasText, text, scoreNum) ==
    [isdict |-> isdict, hasText |-> hasText, text |-> text, scoreNum |-> scoreNum]

\* a str payload value "ok", as its characters
OkChars == <<StrChunk(<<"o">>), StrChunk(<<"k">>)>>

TwoRemedies == <<StrChunk(HoneyTeaText), StrChunk(LemonWaterText)>>

\* answers of the remote knowledge API: transport failures, and 200 with the
\* payload shapes retrieve_from_farmstack_api tells apart
PrimaryResponses ==
    {Response(s, "invalid", "", "", <<>>, <<>>) : s \in {"raise", "none", "non200", "ok"}}
    \cup {Response("ok", "chunks_obj", "", "list", es, <<>>) : es \in
            {<<>>,
             <<ChunkEntry(TRUE, TRUE, StrChunk(HoneyTeaText), TRUE),
               ChunkEntry(TRUE, TRUE, StrChunk(LemonWaterText), TRUE)>>,
             <<ChunkEntry(FALSE, FALSE, NonStrChunk, FALSE),
               ChunkEntry(TRUE, TRUE, StrChunk(LemonWaterText), TRUE)>>,
             <<ChunkEntry(TRUE, FALSE, NonStrChunk, TRUE)>>,
             <<ChunkEntry(TRUE, TRUE, StrChunk(LemonWaterText), FALSE)>>,
             <<ChunkEntry(TRUE, TRUE, NonStrChunk, TRUE)>>}}
    \cup {Response("ok", "chunks_obj", "", "num", <<>>, <<>>)}
    \cup {Response("ok", "list", "", "list", <<>>, items) : items \in
            {<<>>, TwoRemedies, <<StrChunk(HoneyTeaText)>>, <<NonStrChunk>>,
             <<StrChunk(LemonWaterText), NonStrChunk>>}}
    \cup {Response("ok", "keyed_obj", k, "list", <<>>, items) :
            k \in {"content", "results", "data"}, items \in {<<>>, TwoRemedies}}
    \cup {Response("ok", "keyed_obj", k, "str", <<>>, OkChars) : k \in {"content", "results", "data"}}
    \cup {Response("ok", "keyed_obj", k, t, <<>>, <<>>) :
            k \in {"content", "results", "data", "text"}, t \in {"num", "falsy"}}
    \cup {Response("ok", "keyed_obj", "text", "str", <<>>, <<StrChunk(LemonWaterText)>>),
          Response("ok", "keyed_obj", "text", "list", <<>>, <<>>),
          Response("ok", "other_obj", "", "", <<>>, <<>>),
          Response("ok", "scalar", "", "", <<>>, <<>>)}

\* answers of retrieve_from_local_content
LocalAnswers ==
    {[outcome |-> "raise", items |-> <<>>], [outcome |-> "none", items |-> <<>>],
     [outcome |-> "list", items |-> <<>>],
     [outcome |-> "list", items |-> <<StrChunk(HoneyTeaText)>>],
     [outcome |-> "list", items |-> TwoRemedies]}

DiabetesPeanuts ==
    [present |-> TRUE, has_diabetes |-> TRUE, has_hypertension |-> FALSE,
     has_kidney_disease |-> FALSE, is_pregnant |-> FALSE, is_breastfeeding |-> FALSE,
     has_heart_disease |-> FALSE, has_allergies |-> TRUE, allergies |-> <<PeanutsTerm>>]

Unrestricted ==
    [present |-> TRUE, has_diabetes |-> FALSE, has_hypertension |-> FALSE,
     has_kidney_disease |-> FALSE, is_pregnant |-> FALSE, is_breastfeeding |-> FALSE,
     has_heart_disease |-> FALSE, has_allergies |-> FALSE, allergies |-> <<>>]

RequestProfiles == {NoProfile, Unrestricted, DiabetesPeanuts}

RetrievalFlags ==
    [LOCAL_CONTENT_AVAILABLE : BOOLEAN, MEDICAL_FILTERING_AVAILABLE : BOOLEAN,
     USER_MODEL_AVAILABLE : BOOLEAN]

InitRetrieval ==
    /\ mode = "retrieval"
    /\ pc = "call"
    /\ flags \in RetrievalFlags
    /\ profileStore \in StoreStates(RequestProfiles)
    /\ inp \in [primary : PrimaryResponses, local : LocalAnswers,
                user_lookup : {"found", "missing"}, apply_medical_filter : BOOLEAN]
    /\ st = <<>>
    /\ out = <<>>

RetrievalEnv ==
    [primary |-> inp.primary, local |-> inp.local, user_lookup |-> inp.user_lookup,
     profile1 |-> profileStore.profile, profile2 |-> profileStore.profile]

\* one call of content_retrieval(original_query, email, apply_medical_filter=...)
ContentRetrievalCall ==
    /\ mode = "retrieval"
    /\ pc = "call"
    /\ out' = ContentRetrieval(RetrievalEnv, flags, inp.apply_medical_filter)
    /\ pc' = "done"
    /\ UNCHANGED <<mode, flags, profileStore, inp, st>>

NextRetrieval == ContentRetrievalCall

SpecRetrieval == InitRetrieval /\ [][NextRetrieval]_vars

RetrievalDone == mode = "retrieval" /\ pc = "done"

\* C9: content_retrieval never raises, whatever the primary source answers;
\* an unusable payload counts as no content and the fallback source is tried.
C9_RetrievalNeverRaises ==
    RetrievalDone =>
        /\ ~out.raised
        /\ (~TruthyValue(RetrieveFromFarmstackApi(inp.primary)) /\ flags.LOCAL_CONTENT_AVAILABLE)
            => out.local_queried

(***************************************************************************)
(* language_service/translation.py                                         *)
(***************************************************************************)
\* KANNADA_MEDICAL_PHRASES, the entries written in Latin letters
KANNADA_MEDICAL_PHRASES ==
    {<< <<"nanige", " ", "jwara", " ", "ide">>, <<"I", " ", "have", " ", "fever">> >>,
     << <<"jwara">>, <<"fever">> >>,
     << <<"jwara", " ", "bantide">>, <<"I", " ", "got", " ", "fever">> >>,
     << <<"jwara", " ", "ide">>, <<"there", " ", "is", " ", "fever">> >>,
     << <<"nanige", " ", "thalenovu", " ", "ide">>, <<"I", " ", "have", " ", "headache">> >>,
     << <<"thalenovu">>, <<"headache">> >>,
     << <<"thale", " ", "novu">>, <<"headache">> >>,
     << <<"tale", " ", "novu">>, <<"head", " ", "pain">> >>,
     << <<"nanige", " ", "kemmu", " ", "ide">>, <<"I", " ", "have", " ", "cough">> >>,
     << <<"kemmu">>, <<"cough">> >>,
     << <<"kemmu", " ", "barthide">>, <<"I", " ", "am", " ", "coughing">> >>,
     << <<"nanige", " ", "sali", " ", "ide">>, <<"I", " ", "have", " ", "cold">> >>,
     << <<"sali">>, <<"cold">> >>,
     << <<"sardi">>, <<"cold">> >>,
     << <<"sardi", " ", "ide">>, <<"have", " ", "cold">> >>,
     << <<"nanige", " ", "hotte", " ", "novu", " ", "ide">>, <<"I", " ", "have", " ", "stomach", " ", "pain">> >>,
     << <<"hotte", " ", "novu">>, <<"stomach", " ", "pain">> >>,
     << <<"nanige", " ", "shareera", " ", "novu", " ", "ide">>, <<"I", " ", "have", " ", "body", " ", "pain">> >>,
     << <<"shareera", " ", "novu">>, <<"body", " ", "pain">> >>,
     << <<"nanige", " ", "kamjori", " ", "ide">>, <<"I", " ", "feel", " ", "weak">> >>,
     << <<"kamjori">>, <<"weakness">> >>,
     << <<"nanige", " ", "hanti", " ", "barthide">>, <<"I", " ", "am", " ", "vomiting">> >>,
     << <<"hanti">>, <<"vomiting">> >>,
     << <<"nanige", " ", "jolluhagu", " ", "ide">>, <<"I", " ", "have", " ", "diarrhea">> >>,
     << <<"jolluhagu">>, <<"loose", " ", "motion">> >>}

\* text.strip(): leading and trailing blanks removed
RECURSIVE Strip(_)
Strip(t) ==
    IF t = <<>> THEN t
    ELSE IF Head(t) = " " THEN Strip(Tail(t))
    ELSE IF t[Len(t)] = " " THEN Strip(SubSeq(t, 1, Len(t) - 1))
    ELSE t

\* mutant of CheckKannadaMedical: the text is looked up as typed only
CheckKannadaMedicalExact(text) ==
    IF text = <<>> THEN <<>>
    ELSE IF \E e \in KANNADA_MEDICAL_PHRASES : e[1] = Strip(text)
        THEN (CHOOSE e \in KANNADA_MEDICAL_PHRASES : e[1] = Strip(text))[2]
    ELSE <<>>

\* check_kannada_medical: the dictionary's phrase, or <<>> for None
CheckKannadaMedical(text) ==
    IF text = <<>> THEN <<>>
    ELSE IF \E e \in KANNADA_MEDICAL_PHRASES : e[1] = Strip(Lower(text))
        THEN (CHOOSE e \in KANNADA_MEDICAL_PHRASES : e[1] = Strip(Lower(text)))[2]
    ELSE IF \E e \in KANNADA_MEDICAL_PHRASES : e[1] = Strip(text)
        THEN (CHOOSE e \in KANNADA_MEDICAL_PHRASES : e[1] = Strip(text))[2]
    ELSE <<>>

\* detect_language_and_translate_to_english.  svc is the translation
\* service's answer: svc.detect is the detected code or "raise", svc.english
\* what translate returns for the message, svc.translate_raises whether the
\* translate call fails.
DetectLanguageAndTranslateToEnglish(input_msg, svc) ==
    IF CheckKannadaMedical(input_msg) # <<>>
        THEN [raised |-> FALSE, text |-> CheckKannadaMedical(input_msg), lang |-> "kn",
              detect_called |-> FALSE, translate_called |-> FALSE]
    ELSE IF svc.detect = "raise"
        THEN [raised |-> TRUE, text |-> <<>>, lang |-> "",
              detect_called |-> TRUE, translate_called |-> FALSE]
    ELSE IF svc.detect # "en"
        THEN (IF svc.translate_raises
              THEN [raised |-> TRUE, text |-> <<>>, lang |-> "",
                    detect_called |-> TRUE, translate_called |-> TRUE]
              ELSE [raised |-> FALSE, text |-> svc.english, lang |-> svc.detect,
                    detect_called |-> TRUE, translate_called |-> TRUE])
    ELSE [raised |-> FALSE, text |-> input_msg, lang |-> "en",
          detect_called |-> TRUE, translate_called |-> FALSE]

\* A text as rendered in a language: the English text is [lang |-> "en"].
InLanguage(text, lang) == [lang |-> lang, text |-> text]

\* "hi-Latn" -> "hi": the base language code
BaseLang(code) ==
    CASE code = "hi-Latn" -> "hi"
      [] code = "en-US" -> "en"
      [] OTHER -> code

\* translate_text_to_language: the service's rendering of the text in the
\* base language, or the text itself when the service fails (lines 193-195)
TranslateTextToLanguage(text, target_language_code, service_fails) ==
    IF service_fails THEN InLanguage(text, "en")
    ELSE InLanguage(text, BaseLang(target_language_code))

(***************************************************************************)
(* api/servvia_endpoint.py: texts                                          *)
(***************************************************************************)
\* markers clean_ai_response_formatting strips: a bullet sign and its blank,
\* a number with its dot and blank
BulletAtoms == {"<bullet> "}

NumberAtoms == {"1. ", "2. "}

NewlineAtoms == {"\n", "\n\n"}

RECURSIVE StripLineStart(_, _, _)
\* re.sub('^' + marker + '\s*', '', text, flags=re.MULTILINE)
StripLineStart(text, markers, at_line_start) ==
    IF text = <<>> THEN <<>>
    ELSE IF at_line_start /\ Head(text) \in markers
        THEN StripLineStart(Tail(text), markers, FALSE)
        ELSE <<Head(text)>> \o StripLineStart(Tail(text), markers, Head(text) \in NewlineAtoms)

\* clean_ai_response_formatting on a str
CleanAiResponseFormatting(text) ==
    StripLineStart(StripLineStart(text, BulletAtoms, TRUE), NumberAtoms, TRUE)

\* len(text.split())
WordCount(t) ==
    Cardinality({i \in 1..Len(t) :
        /\ t[i] \notin ({" "} \cup NewlineAtoms)
        /\ (i = 1 \/ t[i - 1] \in ({" "} \cup NewlineAtoms))})

\* kannada_keywords of lines 217-223
KannadaKeyword(a) ==
    CASE a = "jwara" -> "fever"
      [] a = "tala" -> "head"
      [] a = "novu" -> "pain"
      [] a = "kemmu" -> "cough"
      [] a = "ide" -> "have"
      [] OTHER -> a

\* the loop of lines 225-227: every keyword found in the original query is
\* replaced in the English query
EnhanceTranslation(english_query, original_query) ==
    [i \in 1..Len(english_query) |->
        IF Contains(Lower(original_query), <<english_query[i]>>)
            THEN KannadaKeyword(english_query[i])
            ELSE english_query[i]]

greeting_keywords ==
    {<<"hello">>, <<"hi">>, <<"hey">>, <<"help">>,
     <<"what", " ", "can", " ", "you">>, <<"start">>, <<"begin">>, <<"greetings">>,
     <<"good", " ", "morning">>, <<"good", " ", "afternoon">>, <<"good", " ", "evening">>,
     <<"hola">>, <<"bonjour">>, <<"namaste">>, <<"howdy">>, <<"sup">>, <<"yo">>}

\* is_greeting, line 246
IsGreeting(english_query) ==
    \E keyword \in greeting_keywords : Contains(Lower(english_query), keyword)

health_keywords == {"fever", "headache", "cough", "cold", "pain", "stomach"}

\* search_query, lines 354-362
SearchQuery(english_query) ==
    IF /\ \E keyword \in health_keywords : Contains(Lower(english_query), <<keyword>>)
       /\ ~Contains(Lower(english_query), <<"remedy">>)
       /\ ~Contains(Lower(english_query), <<"treatment">>)
        THEN english_query \o <<" ", "remedy", " ", "treatment">>
        ELSE english_query

ConsultProfessional == "please consult a healthcare professional"

ConsultProvider == "consult your healthcare provider"

TechnicalDifficulties == "I'm experiencing technical difficulties"

Hello(user_name) == <<"Hello", " ">> \o user_name \o <<"! ">>

\* the answer for an empty query, lines 185-192
AskQuestionMessage ==
    <<"Hello! ", "Please ask me a health-related question, and I'll help you with remedies and guidance in your language.">>

\* welcome_message, lines 252-261
WelcomeMessage ==
    <<"Hello! I'm ServVia.AI, your healthcare assistant. I can help you with:", "\n\n",
      "Medical advice and information", "\n", "Home remedies", "\n\n",
      "How can I assist you today?">>

\* line 394
AllFilteredMessage(user_name, original_query) ==
    Hello(user_name)
    \o <<"Based on your medical profile, I couldn't find remedies that are safe for your specific conditions regarding",
         " ", "'">> \o original_query \o <<"'", ". ", "Please", " ", ConsultProvider, " ", "for personalized advice.">>

\* mutant of NoContentMessage: the branch leaves the answer empty
NoContentMessageEmpty(user_name, original_query) == <<>>

\* line 437
NoContentMessage(user_name, original_query) ==
    Hello(user_name)
    \o <<"I couldn't find specific information about", " ", "'">> \o original_query
    \o <<"'", " ", "in my healthcare knowledge base.", " ", "For your health and safety,", " ",
         ConsultProfessional, ".">>

\* line 442
DatabaseTroubleMessage(user_name) ==
    Hello(user_name)
    \o <<TechnicalDifficulties, " ", "accessing the healthcare database.", " ",
         "Please consult a healthcare professional", " ", "for medical advice.">>

\* line 445
NoFarmstackMessage(user_name, original_query) ==
    Hello(user_name)
    \o <<"I understand you're asking about", " ", "'">> \o original_query
    \o <<"'", ". ", "For your health and safety,", " ", ConsultProfessional, " ",
         "for specific medical advice.">>

\* lines 424, 429, 433: the top chunk quoted (chunks here are shorter than
\* the 500 characters kept by [:500])
QuoteMessage(user_name, chunk) ==
    Hello(user_name) \o <<"Based on available information", ": ", "\n\n">> \o chunk.atoms \o <<"...">>

\* lines 500-506
ServerErrorMessage ==
    <<TechnicalDifficulties, ". ", "Please consult a healthcare professional", " ", "for medical advice.">>

\* `conditions` of lines 319-332
EndpointConditions(profile) ==
    (IF profile.has_diabetes THEN << <<"diabetes">> >> ELSE <<>>)
    \o (IF profile.has_hypertension THEN << <<"high blood pressure">> >> ELSE <<>>)
    \o (IF profile.has_heart_disease THEN << <<"heart condition">> >> ELSE <<>>)
    \o (IF profile.has_kidney_disease THEN << <<"kidney disease">> >> ELSE <<>>)
    \o (IF AllergiesListed(profile)
        THEN << <<"allergies to", " ">> \o JoinText(profile.allergies, <<", ">>) >>
        ELSE <<>>)
    \o (IF profile.is_pregnant THEN << <<"pregnancy">> >> ELSE <<>>)

\* medical_disclaimer of lines 315-335
EndpointDisclaimer(profile) ==
    IF Truthy(profile) /\ EndpointConditions(profile) # <<>>
        THEN <<"Medical Note", ": ", "Considering your", " ">>
             \o JoinText(EndpointConditions(profile), <<", ">>)
             \o <<", ", "I've personalized these recommendations for your safety.", " ",
                  "Always consult your healthcare provider before trying new remedies.">>
        ELSE <<>>

(***************************************************************************)
(* Requests.  Spec runs one request through get_answer_for_text_query      *)
(* (mode "endpoint") or through process_query (mode "process_query").      *)
(* Each action is one stage of the handler; what the collaborators answer  *)
(* is drawn where the handler asks them.                                   *)
(***************************************************************************)
QueryPool == {<<>>, <<"fever">>, <<"hello">>, <<"jwara">>, <<"bukhar">>}

\* answers of the translation service to detect / translate
TranslationAnswers ==
    {[detect |-> "raise", english |-> <<>>, translate_raises |-> FALSE],
     [detect |-> "en", english |-> <<>>, translate_raises |-> FALSE],
     [detect |-> "hi", english |-> <<"fever">>, translate_raises |-> FALSE],
     [detect |-> "hi", english |-> <<>>, translate_raises |-> TRUE]}

\* answers of the remote API drawn for a request
RequestPrimaryResponses ==
    {Response("non200", "invalid", "", "", <<>>, <<>>),
     Response("ok", "list", "", "list", <<>>, TwoRemedies),
     Response("ok", "list", "", "list", <<>>, <<StrChunk(HoneyTeaText)>>),
     Response("ok", "list", "", "list", <<>>, <<StrChunk(LemonWaterText), NonStrChunk>>),
     Response("ok", "keyed_obj", "content", "num", <<>>, <<>>)}

RequestLocalAnswers ==
    {[outcome |-> "raise", items |-> <<>>], [outcome |-> "none", items |-> <<>>],
     [outcome |-> "list", items |-> <<StrChunk(HoneyTeaText)>>]}

\* answers of generate_query_response: it raises, or its response is absent,
\* a text, or the context repeated
GenerationAnswers ==
    {[kind |-> "raise", text |-> <<>>], [kind |-> "none", text |-> <<>>],
     [kind |-> "text", text |-> <<>>],
     [kind |-> "text", text |-> <<"1. ">>],
     [kind |-> "text", text |-> <<"1. ", "Rest and drink warm fluids">>],
     [kind |-> "echo", text |-> <<>>]}

EndpointFlags ==
    [TRANSLATION_AVAILABLE : BOOLEAN, FARMSTACK_AVAILABLE : BOOLEAN,
     GENERATION_AVAILABLE : BOOLEAN, MEDICAL_FILTERING_AVAILABLE : BOOLEAN,
     USER_MODEL_AVAILABLE : BOOLEAN, LOCAL_CONTENT_AVAILABLE : BOOLEAN]

\* a response map of content_retrieval before the call
NoRetrieval ==
    [raised |-> FALSE, retrieved_chunks |-> NoneValue, source |-> "none",
     medical_filtered |-> FALSE, medical_warnings |-> <<>>,
     medical_disclaimer |-> <<>>, original_chunk_count |-> 0,
     filtered_chunk_count |-> 0, user_id_found |-> FALSE,
     success |-> FALSE, local_queried |-> FALSE]

\* the handler's local variables at line 130
EndpointLocals ==
    [user_name |-> <<"user">>,
     english_query |-> <<>>,
     detected_language |-> "en",
     translation_failed |-> FALSE,
     user_id_found |-> FALSE,
     profile_lookup_failed |-> FALSE,
     medical_profile |-> NoProfile,
     medical_disclaimer |-> <<>>,
     search_query |-> <<>>,
     retrieval_called |-> FALSE,
     retrieval |-> NoRetrieval,
     retrieved_content |-> NoneValue,
     content_source |-> "",
     retrieval_filter_read |-> FALSE,
     filter_called |-> FALSE,
     filter_raised |-> FALSE,
     filter_removed_all |-> FALSE,
     generation_called |-> FALSE,
     generation_failed |-> FALSE,
     healthcare_response_english |-> <<>>,
     filter_removed |-> FALSE,       \* the endpoint's filter call dropped a chunk
     localize_called |-> FALSE,      \* translate_text_to_language was called
     profile_reads |-> 0,            \* calls of get_medical_profile_by_user_id
     versions_read |-> {}]           \* profile_version of the profiles they returned

InitEndpoint ==
    /\ mode = "endpoint"
    /\ pc = "start"
    /\ flags \in EndpointFlags
    /\ profileStore \in StoreStates(RequestProfiles)
    /\ inp \in [email_given : BOOLEAN, query : QueryPool]
    /\ st = EndpointLocals
    /\ out = <<>>

\* the JSON body of a JsonResponse
JsonResponse(http, success, answer, source, s, is_greeting) ==
    [http |-> http, success |-> success, answer |-> answer, source |-> source,
     detected_language |-> s.detected_language,
     english_query |-> s.english_query,
     medical_profile_applied |-> ~is_greeting /\ Truthy(s.medical_profile),
     content_filtered |-> ~is_greeting /\ flags.MEDICAL_FILTERING_AVAILABLE /\ Truthy(s.medical_profile),
     ai_generated |-> ~is_greeting /\ flags.GENERATION_AVAILABLE,
     is_greeting |-> is_greeting]

\* what a read of the profile store returns: the stored profile, or None
\* when the query fails (get_medical_profile_by_user_id catches it)
ReadProfile(db_ok) == IF db_ok THEN profileStore.profile ELSE NoProfile

\* the profile_version a read of the store shows: none when the query fails
\* or no profile is stored
VersionsSeen(db_ok) ==
    IF db_ok /\ profileStore.profile.present THEN {profileStore.version} ELSE {}

\* lines 130-192: the request is parsed and validated
EndpointReceive ==
    /\ mode = "endpoint"
    /\ pc = "start"
    /\ IF ~inp.email_given
        THEN /\ out' = JsonResponse(400, FALSE, InLanguage(<<>>, "en"), "", st, FALSE)
             /\ pc' = "done"
        ELSE IF inp.query = <<>>
        THEN /\ out' = JsonResponse(200, TRUE, InLanguage(AskQuestionMessage, "en"), "", st, FALSE)
             /\ pc' = "done"
        ELSE /\ out' = out
             /\ pc' = "normalize"
    /\ UNCHANGED <<mode, flags, profileStore, inp, st>>

\* english_query and detected_language after lines 197-234
Normalized(s, original_query, r) ==
    IF ~flags.TRANSLATION_AVAILABLE
        THEN [s EXCEPT !.english_query = original_query, !.detected_language = "en"]
    ELSE IF r.raised
        THEN [s EXCEPT !.english_query = original_query, !.detected_language = "en",
                       !.translation_failed = TRUE]
    ELSE IF r.lang # "en" /\ WordCount(r.text) < 2
        THEN [s EXCEPT !.english_query = EnhanceTranslation(r.text, original_query),
                       !.detected_language = r.lang]
    ELSE [s EXCEPT !.english_query = r.text, !.detected_language = r.lang]

\* mutant of LocalizeCalls: the language is not compared with "en"
LocalizeCallsAlways(s) == flags.TRANSLATION_AVAILABLE

\* whether line 266 / line 458 sends the text to the translation service
LocalizeCalls(s) == flags.TRANSLATION_AVAILABLE /\ s.detected_language # "en"

\* final_response of lines 456-470 (and 264-275 for the welcome)
Localize(s, text, service_fails) ==
    IF LocalizeCalls(s)
        THEN TranslateTextToLanguage(text, s.detected_language, service_fails)
        ELSE InLanguage(text, "en")

\* lines 194-297: language detection, translation, and the greeting return
EndpointNormalize ==
    /\ mode = "endpoint"
    /\ pc = "normalize"
    /\ \E svc \in TranslationAnswers, service_fails \in BOOLEAN :
        LET s == Normalized(st, inp.query, DetectLanguageAndTranslateToEnglish(inp.query, svc))
        IN IF IsGreeting(s.english_query)
               THEN /\ st' = [s EXCEPT !.localize_called = LocalizeCalls(s)]
                    /\ out' = JsonResponse(200, TRUE, Localize(s, WelcomeMessage, service_fails),
                                           "ServVia.AI", s, TRUE)
                    /\ pc' = "done"
               ELSE /\ st' = s
                    /\ out' = out
                    /\ pc' = "profile"
    /\ UNCHANGED <<mode, flags, profileStore, inp>>

\* lines 299-341: the user id and the medical profile
EndpointProfile ==
    /\ mode = "endpoint"
    /\ pc = "profile"
    /\ \E user_lookup \in {"found", "missing"}, db_ok \in BOOLEAN :
        st' = IF flags.USER_MODEL_AVAILABLE /\ flags.MEDICAL_FILTERING_AVAILABLE
              THEN IF user_lookup = "found"
                   THEN [st EXCEPT !.user_id_found = TRUE,
                                   !.profile_reads = 1,
                                   !.versions_read = VersionsSeen(db_ok),
                                   !.profile_lookup_failed = ~db_ok,
                                   !.medical_profile = ReadProfile(db_ok),
                                   !.medical_disclaimer = EndpointDisclaimer(ReadProfile(db_ok))]
                   ELSE [st EXCEPT !.profile_lookup_failed = TRUE]
              ELSE st
    /\ pc' = "retrieve"
    /\ UNCHANGED <<mode, flags, profileStore, inp, out>>

\* lines 343-373 and 435-445: the retriever is asked
EndpointRetrieve ==
    /\ mode = "endpoint"
    /\ pc = "retrieve"
    /\ IF ~flags.FARMSTACK_AVAILABLE
        THEN /\ st' = [st EXCEPT !.healthcare_response_english =
                                    NoFarmstackMessage(st.user_name, inp.query)]
             /\ pc' = "respond"
        ELSE \E primary \in RequestPrimaryResponses, local \in RequestLocalAnswers,
                user_lookup \in {"found", "missing"}, db_ok1 \in BOOLEAN, db_ok2 \in BOOLEAN :
            \E response \in {ContentRetrieval(
                    [primary |-> primary, local |-> local, user_lookup |-> user_lookup,
                     profile1 |-> ReadProfile(db_ok1), profile2 |-> ReadProfile(db_ok2)],
                    flags, TRUE)} :
            LET filter_ran == response.medical_filtered /\ flags.MEDICAL_FILTERING_AVAILABLE
                s == [st EXCEPT !.search_query = SearchQuery(st.english_query),
                                !.retrieval_called = TRUE,
                                !.retrieval = response,
                                !.retrieved_content = response.retrieved_chunks,
                                !.retrieval_filter_read = filter_ran /\ db_ok2,
                                !.profile_reads = IF filter_ran THEN @ + 2 ELSE @,
                                !.versions_read =
                                    IF filter_ran
                                    THEN @ \cup VersionsSeen(db_ok1) \cup VersionsSeen(db_ok2)
                                    ELSE @]
            IN IF response.raised
                THEN /\ st' = [s EXCEPT !.healthcare_response_english =
                                           DatabaseTroubleMessage(st.user_name)]
                     /\ pc' = "respond"
                ELSE IF TruthyValue(response.retrieved_chunks)
                THEN /\ st' = [s EXCEPT !.content_source = "FarmStack Knowledge Base"]
                     /\ pc' = "filter"
                ELSE /\ st' = [s EXCEPT !.healthcare_response_english =
                                           NoContentMessage(st.user_name, inp.query)]
                     /\ pc' = "respond"
    /\ UNCHANGED <<mode, flags, profileStore, inp, out>>

\* lines 375-395: the endpoint's own filtering pass
EndpointFilter ==
    /\ mode = "endpoint"
    /\ pc = "filter"
    /\ IF ~(flags.MEDICAL_FILTERING_AVAILABLE /\ Truthy(st.medical_profile) /\ st.user_id_found)
        THEN /\ st' = st
             /\ pc' = "generate"
        ELSE \E db_ok1 \in BOOLEAN, db_ok2 \in BOOLEAN :
            LET f == FilterRemediesByMedicalProfile(st.retrieved_content.items, TRUE,
                         ReadProfile(db_ok1), ReadProfile(db_ok2))
                s == [st EXCEPT !.filter_called = TRUE,
                                !.filter_removed =
                                    ~f.raised /\ Len(f.safe) < Len(st.retrieved_content.items),
                                !.profile_reads = @ + 2,
                                !.versions_read =
                                    @ \cup VersionsSeen(db_ok1) \cup VersionsSeen(db_ok2)]
            IN IF f.raised
                THEN /\ st' = [s EXCEPT !.filter_raised = TRUE,
                                        !.healthcare_response_english =
                                            DatabaseTroubleMessage(st.user_name)]
                     /\ pc' = "respond"
                ELSE IF Len(f.safe) > 0
                THEN /\ st' = [s EXCEPT !.retrieved_content = ListValue(f.safe),
                                        !.medical_disclaimer =
                                            IF f.disclaimer # <<>> THEN f.disclaimer
                                            ELSE st.medical_disclaimer]
                     /\ pc' = "generate"
                ELSE /\ st' = [s EXCEPT !.filter_removed_all = TRUE,
                                        !.healthcare_response_english =
                                            AllFilteredMessage(st.user_name, inp.query),
                                        !.retrieved_content = ListValue(<<>>)]
                     /\ pc' = "generate"
    /\ UNCHANGED <<mode, flags, profileStore, inp, out>>

\* context_chunks of line 404: "\n\n".join(retrieved_content[:5])
ContextChunks(retrieved_content) ==
    JoinText([i \in 1..Len(Prefix(retrieved_content, 5)) |-> retrieved_content[i].atoms],
             <<"\n\n">>)

\* healthcare_response_english after lines 400-433 when the top chunk is a
\* str: the generated text, or the top chunk quoted
Composed(s, gen, join_raises) ==
    LET quote == QuoteMessage(s.user_name, s.retrieved_content.items[1])
        text == IF gen.kind = "echo" THEN ContextChunks(s.retrieved_content.items) ELSE gen.text
    IN IF ~flags.GENERATION_AVAILABLE THEN quote
       ELSE IF join_raises \/ gen.kind \in {"raise", "none"} THEN quote
       ELSE IF CleanAiResponseFormatting(text) # <<>> THEN CleanAiResponseFormatting(text)
       ELSE quote

\* lines 397-433: the answer is generated or quoted
EndpointGenerate ==
    /\ mode = "endpoint"
    /\ pc = "generate"
    /\ IF ~TruthyValue(st.retrieved_content)
        THEN st' = st
        ELSE \E gen \in GenerationAnswers :
            LET items == st.retrieved_content.items
                join_raises == ~AllStr(Prefix(items, 5))
                called == flags.GENERATION_AVAILABLE /\ ~join_raises
                s == [st EXCEPT !.generation_called = called,
                                !.generation_failed = called /\ gen.kind \in {"raise", "none"}]
            IN IF ~items[1].str
                THEN st' = [s EXCEPT !.generation_called = FALSE,
                                     !.generation_failed = FALSE,
                                     !.healthcare_response_english =
                                         DatabaseTroubleMessage(st.user_name)]
                ELSE st' = [s EXCEPT !.healthcare_response_english = Composed(st, gen, join_raises)]
    /\ pc' = "respond"
    /\ UNCHANGED <<mode, flags, profileStore, inp, out>>

\* lines 447-495: disclaimer, localization and the response
EndpointRespond ==
    /\ mode = "endpoint"
    /\ pc = "respond"
    /\ \E service_fails \in BOOLEAN :
        LET text == IF st.medical_disclaimer # <<>> /\ st.healthcare_response_english # <<>>
                    THEN st.medical_disclaimer \o <<"\n\n">> \o st.healthcare_response_english
                    ELSE st.healthcare_response_english
        IN /\ out' = JsonResponse(200, TRUE, Localize(st, text, service_fails),
                                  IF st.content_source # "" THEN st.content_source ELSE "FarmStack",
                                  st, FALSE)
           /\ st' = [st EXCEPT !.healthcare_response_english = text,
                               !.localize_called = LocalizeCalls(st)]
    /\ pc' = "done"
    /\ UNCHANGED <<mode, flags, profileStore, inp>>

NextEndpoint ==
    \/ EndpointReceive
    \/ EndpointNormalize
    \/ EndpointProfile
    \/ EndpointRetrieve
    \/ EndpointFilter
    \/ EndpointGenerate
    \/ EndpointRespond

(***************************************************************************)
(* api/utils.py process_query and rag_service/execute_rag.py               *)
(***************************************************************************)
\* execute_rag.py lines 79-100
RagNoContentMessage(user_name, original_query) ==
    Hello(user_name)
    \o <<"I'm having trouble accessing my knowledge base right now, but I'm here to help with your health concerns.",
         "\n\n", "For your query about", ": ">> \o original_query
    \o <<"\n\n", "General Health Recommendations", ": ",
         "Consider consulting a healthcare professional", "\n\n",
         "For specific medical concerns, please consult with a qualified healthcare professional.">>

\* execute_rag.py line 189
RagEmptyGenerationMessage(user_name) ==
    Hello(user_name)
    \o <<"I found relevant information but had trouble generating a response.", " ",
         "Please consult a healthcare professional", ".">>

\* execute_rag.py line 193
RagFailedGenerationMessage(user_name) ==
    Hello(user_name)
    \o <<"I found some information but had trouble processing it.", " ",
         "Please consult a healthcare professional", " ", "for reliable medical advice.">>

\* utils.py line 346
ProcessFallbackMessage(user_name) ==
    Hello(user_name)
    \o <<"I'm experiencing some technical difficulties with my healthcare system right now.",
         " ", "For your safety,", " ", ConsultProfessional, " ", "for medical advice.">>

\* pdf_content_handler.py lines 190-238: the three answers of
\* get_healthcare_response_from_pdf
PdfResponse(user_query, user_name, pdf) ==
    CASE pdf = "remedies" ->
            Hello(user_name) \o <<"Based on your query about", " ">> \o user_query
            \o <<", ", "here's what I found in our healthcare guide", ": ", "\n\n">>
            \o <<"<bullet> ">> \o LemonWaterText
            \o <<"\n\n", "Always consult with a healthcare professional for proper medical advice">>
      [] pdf = "none" ->
            Hello(user_name) \o <<"I couldn't find specific information about", " ">> \o user_query
            \o <<" ", "in our current healthcare guide.", "\n\n", "Consult with a healthcare professional">>
      [] OTHER ->
            Hello(user_name)
            \o <<"I'm having some technical difficulties accessing the healthcare information right now.",
                 " ", "For your safety,", " ", ConsultProfessional, ".">>

\* str(chunk)
ChunkStr(chunk) == IF chunk.str THEN chunk.atoms ELSE <<"<repr>">>

RECURSIVE Reverse(_)
Reverse(s) == IF s = <<>> THEN <<>> ELSE Reverse(Tail(s)) \o <<s[1]>>

\* reranked_chunks of execute_rag.py lines 124-140
RerankedChunks(retrieved_chunks_data, rerank) ==
    IF rerank \in {"raise", "empty"} THEN retrieved_chunks_data
    ELSE Reverse(retrieved_chunks_data)

\* context_chunks of execute_rag.py lines 161-165
RagContextChunks(reranked_chunks) ==
    JoinText([i \in 1..Len(reranked_chunks) |-> ChunkStr(reranked_chunks[i])], <<"\n\n">>)

\* generated_final_response of execute_rag.py lines 176-193
RagGenerated(user_name, context_chunks, gen) ==
    LET text == IF gen.kind = "echo" THEN context_chunks ELSE gen.text
    IN IF gen.kind = "raise" THEN RagFailedGenerationMessage(user_name)
       ELSE IF gen.kind = "none" \/ text = <<>> THEN RagEmptyGenerationMessage(user_name)
       ELSE text

\* follow-up lists: execute_rag.py 105-109, 206-211, utils.py 312-317, 352-356
GeneralFollowUps ==
    <<"Should I consult a doctor for this?", "What are general wellness tips?",
      "How do I know if this is serious?">>

HealthcareFollowUps ==
    <<"What are the warning signs I should watch for?",
      "How can I prevent this condition in the future?",
      "Are there any foods or activities I should avoid?",
      "When should I see a doctor for this condition?">>

UrgentFollowUps ==
    <<"Contact your healthcare provider", "Visit urgent care if symptoms persist",
      "Call emergency services if severe">>

\* labels fetch_source_from_reranked_chunks answers with
SourceAnswers == {"raise", "Home Remedies Guide"}

RerankAnswers == {"raise", "empty", "reversed"}

RephraseAnswers == {"raise", "same", "expanded"}

IntentAnswers ==
    {[proceed_to_rag |-> TRUE, intent_response |-> <<>>],
     [proceed_to_rag |-> FALSE, intent_response |-> <<"Hello! ", "How can I help you?">>]}

PdfAnswers == {"remedies", "none", "raise"}

\* UTILS_LOCAL_CONTENT_AVAILABLE is utils.py's LOCAL_CONTENT_AVAILABLE
\* (is_initialized() of the local retriever, lines 9-20); the name without
\* prefix is content_retrieval.py's, set when the same module imports
ProcessFlags ==
    {f \in [UTILS_LOCAL_CONTENT_AVAILABLE : BOOLEAN, HEALTHCARE_PDF_AVAILABLE : BOOLEAN,
            LOCAL_CONTENT_AVAILABLE : BOOLEAN, MEDICAL_FILTERING_AVAILABLE : BOOLEAN,
            USER_MODEL_AVAILABLE : BOOLEAN] :
        f.UTILS_LOCAL_CONTENT_AVAILABLE => f.LOCAL_CONTENT_AVAILABLE}

\* response_map of execute_rag.py line 38 / utils.py line 207, with the keys
\* the two functions set; has_source tells whether the key "source" is set
EmptyResponseMap ==
    [generated_final_response |-> <<>>, has_source |-> FALSE, source |-> "",
     follow_up_questions |-> <<>>]

ProcessLocals ==
    [user_name |-> <<"user">>,
     query_in_english |-> <<>>,
     input_language_detected |-> "",
     translation_failed |-> FALSE,
     rag_called |-> FALSE,
     rephrased_query |-> <<>>,
     retrieval_called |-> FALSE,
     retrieval |-> NoRetrieval,
     retrieved_chunks_data |-> NoneValue,
     generation_called |-> FALSE,
     generation_failed |-> FALSE,
     postprocess_failed |-> FALSE,
     response_map |-> EmptyResponseMap]

InitProcessQuery ==
    /\ mode = "process_query"
    /\ pc = "start"
    /\ flags \in ProcessFlags
    /\ profileStore \in StoreStates(RequestProfiles)
    /\ inp \in [query : QueryPool \ {<<>>}]
    /\ st = ProcessLocals
    /\ out = <<>>

\* the response map after the except branch of utils.py lines 341-357
ProcessFallback(s) ==
    [generated_final_response |-> s.response_map.generated_final_response,
     translated_response |-> InLanguage(ProcessFallbackMessage(s.user_name), "en"),
     final_response |-> InLanguage(ProcessFallbackMessage(s.user_name), "en"),
     source |-> "",
     follow_up_questions |-> UrgentFollowUps]

\* utils.py lines 212-243: user data, then the query is translated
ProcessQueryTranslate ==
    /\ mode = "process_query"
    /\ pc = "start"
    /\ \E svc \in TranslationAnswers :
        LET r == DetectLanguageAndTranslateToEnglish(inp.query, svc)
        IN IF r.raised
            THEN /\ st' = [st EXCEPT !.translation_failed = TRUE]
                 /\ out' = ProcessFallback(st)
                 /\ pc' = "done"
            ELSE /\ st' = [st EXCEPT !.query_in_english = r.text,
                                     !.input_language_detected = r.lang]
                 /\ out' = out
                 /\ pc' = "route"
    /\ UNCHANGED <<mode, flags, profileStore, inp>>

\* utils.py lines 245-290: which handler answers
ProcessQueryRoute ==
    /\ mode = "process_query"
    /\ pc = "route"
    /\ IF flags.UTILS_LOCAL_CONTENT_AVAILABLE
        THEN /\ st' = [st EXCEPT !.rag_called = TRUE]
             /\ pc' = "rephrase"
        ELSE IF flags.HEALTHCARE_PDF_AVAILABLE
        THEN /\ \E pdf \in PdfAnswers :
                st' = [st EXCEPT !.response_map =
                          [generated_final_response |-> PdfResponse(inp.query, st.user_name, pdf),
                           has_source |-> TRUE, source |-> "Home_Remedies_Guide.pdf",
                           follow_up_questions |-> <<>>]]
             /\ pc' = "postprocess"
        ELSE \E intent \in IntentAnswers :
            IF intent.proceed_to_rag
                THEN /\ st' = [st EXCEPT !.rag_called = TRUE]
                     /\ pc' = "rephrase"
                ELSE /\ st' = [st EXCEPT !.response_map.generated_final_response =
                                            intent.intent_response]
                     /\ pc' = "postprocess"
    /\ UNCHANGED <<mode, flags, profileStore, inp, out>>

\* execute_rag.py lines 46-57
RagRephrase ==
    /\ mode = "process_query"
    /\ pc = "rephrase"
    /\ \E rephrase \in RephraseAnswers :
        st' = [st EXCEPT !.rephrased_query =
                  IF rephrase = "expanded"
                  THEN st.query_in_english \o <<" ", "remedy">>
                  ELSE st.query_in_english]
    /\ pc' = "retrieve"
    /\ UNCHANGED <<mode, flags, profileStore, inp, out>>

\* execute_rag.py lines 59-110: retrieval, and the answer when it brings
\* nothing
RagRetrieve ==
    /\ mode = "process_query"
    /\ pc = "retrieve"
    /\ \E primary \in RequestPrimaryResponses, local \in RequestLocalAnswers,
          user_lookup \in {"found", "missing"}, db_ok1 \in BOOLEAN, db_ok2 \in BOOLEAN :
        \E retrieval_results \in {ContentRetrieval(
                [primary |-> primary, local |-> local, user_lookup |-> user_lookup,
                 profile1 |-> ReadProfile(db_ok1), profile2 |-> ReadProfile(db_ok2)],
                flags, TRUE)} :
        LET retrieved_chunks_data == IF retrieval_results.raised THEN NoneValue
                                     ELSE retrieval_results.retrieved_chunks
            s == [st EXCEPT !.retrieval_called = TRUE,
                            !.retrieval = retrieval_results,
                            !.retrieved_chunks_data = retrieved_chunks_data]
        IN IF TruthyValue(retrieved_chunks_data)
            THEN /\ st' = s
                 /\ pc' = "generate"
            ELSE /\ st' = [s EXCEPT !.response_map =
                              [generated_final_response |->
                                   RagNoContentMessage(st.user_name, st.query_in_english),
                               has_source |-> TRUE, source |-> "",
                               follow_up_questions |-> GeneralFollowUps]]
                 /\ pc' = "postprocess"
    /\ UNCHANGED <<mode, flags, profileStore, inp, out>>

\* execute_rag.py lines 112-225: reranking, generation and the source label
RagGenerate ==
    /\ mode = "process_query"
    /\ pc = "generate"
    /\ \E rerank \in RerankAnswers, gen \in GenerationAnswers, label \in SourceAnswers :
        LET reranked_chunks == RerankedChunks(st.retrieved_chunks_data.items, rerank)
            context_chunks == RagContextChunks(reranked_chunks)
        IN st' = [st EXCEPT !.generation_called = TRUE,
                            !.generation_failed = gen.kind \in {"raise", "none"},
                            !.response_map =
                                [generated_final_response |->
                                     RagGenerated(st.user_name, context_chunks, gen),
                                 has_source |-> TRUE,
                                 source |-> IF label = "raise" THEN "Healthcare Content"
                                            ELSE label,
                                 follow_up_questions |-> HealthcareFollowUps]]
    /\ pc' = "postprocess"
    /\ UNCHANGED <<mode, flags, profileStore, inp, out>>

\* follow_up_question_options as postprocess_and_translate_query_response
\* returns them (utils.py lines 296-307)
PostprocessFollowUps == {<<>>, <<"Tell me more about this">>}

\* utils.py lines 292-339: the response is rendered in the input language
\* (the outcomes of postprocess_and_translate_query_response are drawn) and
\* the response map is completed
ProcessQueryPostprocess ==
    /\ mode = "process_query"
    /\ pc = "postprocess"
    /\ \E postprocess \in {"raise", "translated", "kept"},
          follow_up_question_options \in PostprocessFollowUps :
        IF postprocess = "raise"
            THEN /\ st' = [st EXCEPT !.postprocess_failed = TRUE]
                 /\ out' = ProcessFallback(st)
            ELSE LET text == st.response_map.generated_final_response
                     final == IF postprocess = "translated"
                              THEN InLanguage(text, BaseLang(st.input_language_detected))
                              ELSE InLanguage(text, "en")
                     healthcare == flags.UTILS_LOCAL_CONTENT_AVAILABLE
                                   \/ flags.HEALTHCARE_PDF_AVAILABLE
                 IN /\ st' = st
                    /\ out' = [generated_final_response |-> text,
                               translated_response |-> final,
                               final_response |-> final,
                               source |-> IF st.response_map.has_source
                                          THEN st.response_map.source
                                          ELSE IF flags.UTILS_LOCAL_CONTENT_AVAILABLE
                                          THEN "Healthcare Content" ELSE "",
                               follow_up_questions |->
                                   IF healthcare THEN HealthcareFollowUps
                                   ELSE follow_up_question_options]
    /\ pc' = "done"
    /\ UNCHANGED <<mode, flags, profileStore, inp>>

NextProcessQuery ==
    \/ ProcessQueryTranslate
    \/ ProcessQueryRoute
    \/ RagRephrase
    \/ RagRetrieve
    \/ RagGenerate
    \/ ProcessQueryPostprocess

(***************************************************************************)
(* One request through either entry point.                                 *)
(***************************************************************************)
Init == InitEndpoint \/ InitProcessQuery

Next == NextEndpoint \/ NextProcessQuery

Spec == Init /\ [][Next]_vars

(***************************************************************************)
(* Properties of a request.                                                *)
(***************************************************************************)
\* phrases with which the handlers' messages send the user to a professional
ProfessionalPhrases ==
    {ConsultProfessional, ConsultProvider, "Please consult a healthcare professional",
     "Consider consulting a healthcare professional",
     "Consult with a healthcare professional",
     "Always consult with a healthcare professional for proper medical advice"}

RecommendsProfessional(text) == \E i \in 1..Len(text) : text[i] \in ProfessionalPhrases

\* phrases with which the handlers' messages report a technical problem
TechnicalPhrases ==
    {TechnicalDifficulties,
     "I'm experiencing some technical difficulties with my healthcare system right now.",
     "I'm having some technical difficulties accessing the healthcare information right now."}

IsTechnicalErrorText(text) == \E i \in 1..Len(text) : text[i] \in TechnicalPhrases

EndpointDone == mode = "endpoint" /\ pc = "done"

\* the POST carried its required input
RequiredInput == inp.email_given /\ inp.query # <<>>

\* translation, profile lookup and retrieval all failed; nothing is left for
\* filtering, generation and localization to work on
EveryStageFailed ==
    /\ st.translation_failed
    /\ st.profile_lookup_failed
    /\ st.retrieval_called
    /\ ~TruthyValue(st.retrieved_content)

\* execute_rag_pipeline has returned its response map
RagReturned == mode = "process_query" /\ st.rag_called /\ pc \in {"postprocess", "done"}

RagStagesFailed == ~TruthyValue(st.retrieved_chunks_data) \/ st.generation_failed

\* C1: every POST with an email and a query gets a non-empty answer, a
\* message recommending a healthcare professional when every stage failed;
\* generated_final_response of execute_rag_pipeline is non-empty as well, and
\* recommends a professional when retrieval or generation failed.
C1_AnswerNeverEmpty ==
    /\ (EndpointDone /\ RequiredInput) =>
          /\ out.answer.text # <<>>
          /\ EveryStageFailed => RecommendsProfessional(out.answer.text)
    /\ RagReturned =>
          /\ st.response_map.generated_final_response # <<>>
          /\ RagStagesFailed =>
                RecommendsProfessional(st.response_map.generated_final_response)

C1_Witness ==
    /\ EndpointDone
    /\ RequiredInput
    /\ EveryStageFailed
    /\ st.retrieval.local_queried
    /\ out.answer.text = NoContentMessage(st.user_name, inp.query)

\* C2: no stage failure reaches the caller as an error: a request with its
\* required input ends with a normal result whose text is not a technical
\* error message.
C2_FailuresBecomeFallbacks ==
    /\ (EndpointDone /\ RequiredInput) =>
          /\ out.http = 200
          /\ out.success
          /\ ~IsTechnicalErrorText(out.answer.text)
    /\ (mode = "process_query" /\ pc = "done") =>
          ~IsTechnicalErrorText(out.final_response.text)

ForbiddenWords == {"honey", "sugar", "jaggery", "peanut"}

\* C6: for a user with diabetes and a peanut allergy the response text of a
\* health query holds none of "honey", "sugar", "jaggery", "peanut"
\* (case-insensitive, disclaimer included).
C6_NoForbiddenWords ==
    (EndpointDone /\ RequiredInput /\ ~out.is_greeting
        /\ profileStore.profile = DiabetesPeanuts /\ st.medical_profile = DiabetesPeanuts) =>
        \A i \in 1..Len(out.answer.text) :
            LowerAtom(out.answer.text[i]) \notin ForbiddenWords

\* the warnings the per-condition steps of the filter write for the profiles
\* of a request
PerConditionWarnings ==
    UNION {{FilterWarnings(p)[i] : i \in 1..Len(FilterWarnings(p))} : p \in RequestProfiles}

\* the filtering pass inside content_retrieval removed every chunk
RetrievalFilteredAll ==
    /\ st.retrieval_called
    /\ st.retrieval.medical_filtered
    /\ st.retrieval.original_chunk_count > 0
    /\ st.retrieval.filtered_chunk_count = 0

\* C7: when the filter removes every chunk, its result carries a warning of
\* its own (none of the per-condition warnings), the answer is the direct
\* safety message and the generation service is not called.
C7_AllFilteredIsDistinct ==
    (EndpointDone /\ RequiredInput /\ (RetrievalFilteredAll \/ st.filter_removed_all)) =>
        /\ RetrievalFilteredAll =>
              \E i \in 1..Len(st.retrieval.medical_warnings) :
                  st.retrieval.medical_warnings[i] \notin PerConditionWarnings
        /\ ~st.generation_called
        /\ Contains(out.answer.text, AllFilteredMessage(st.user_name, inp.query))

\* C8: when the filter raises at the endpoint's call site the request goes on
\* to composition with the unfiltered chunks: the answer is not the
\* technical-difficulties message.
C8_FilterFailsOpen ==
    (EndpointDone /\ RequiredInput /\ st.filter_raised) =>
        ~IsTechnicalErrorText(out.answer.text)

\* the chunk list that reached composition was empty
NothingToCompose ==
    /\ st.retrieval_called
    /\ ~st.retrieval.raised
    /\ ~st.filter_raised
    /\ ~TruthyValue(st.retrieved_content)

\* C10: when no chunk reaches composition the answer recommends a healthcare
\* professional, the generation service is not called and the result names
\* no source.
C10_EmptyContentFallback ==
    /\ (EndpointDone /\ RequiredInput /\ NothingToCompose) =>
          /\ RecommendsProfessional(out.answer.text)
          /\ ~st.generation_called
          /\ out.source = ""
    /\ (mode = "process_query" /\ pc = "done" /\ st.retrieval_called
            /\ ~TruthyValue(st.retrieved_chunks_data) /\ ~st.postprocess_failed) =>
          /\ RecommendsProfessional(out.final_response.text)
          /\ ~st.generation_called
          /\ out.source = ""

\* labels under which a result names the primary source
PrimarySourceLabels == {"FarmStack Knowledge Base", "FarmStack", "farmstack"}

\* the primary source brought nothing and the local corpus one chunk
LocalServedOne ==
    /\ st.retrieval_called
    /\ ~st.retrieval.raised
    /\ st.retrieval.local_queried
    /\ st.retrieval.original_chunk_count = 1
    /\ st.retrieval.filtered_chunk_count = 1

\* C11: when the primary source fails and the local corpus yields one chunk,
\* the request completes, the chunk count is 1 and the source label of the
\* result names the fallback source, not the primary.
C11_FallbackSourceLabel ==
    (EndpointDone /\ RequiredInput /\ LocalServedOne) =>
        /\ out.http = 200
        /\ st.retrieval.source = "local"
        /\ out.source \notin PrimarySourceLabels

\* C12: with a working translation service and a query in another language,
\* the retriever is asked with exactly the English text of the normalizer and
\* the answer is localized to the detected language code.
C12_QueryAndLanguageKept ==
    (EndpointDone /\ RequiredInput /\ st.retrieval_called
        /\ flags.TRANSLATION_AVAILABLE /\ ~st.translation_failed
        /\ st.detected_language # "en") =>
        /\ st.search_query = st.english_query
        /\ out.answer.lang \in {st.detected_language, "en"}

\* the canonical-language answer of a finished request
CanonicalAnswer == IF out.is_greeting THEN WelcomeMessage ELSE st.healthcare_response_english

\* C13: when the detected language is English the final answer is the
\* canonical answer itself and the translation service is not called for it.
C13_LocalizeEnglishIsIdentity ==
    (EndpointDone /\ RequiredInput /\ st.detected_language = "en") =>
        /\ ~st.localize_called
        /\ out.answer = InLanguage(CanonicalAnswer, "en")

C13_Witness ==
    /\ EndpointDone
    /\ RequiredInput
    /\ flags.TRANSLATION_AVAILABLE
    /\ ~st.translation_failed
    /\ st.detected_language = "en"
    /\ st.generation_called
    /\ st.medical_disclaimer # <<>>
    /\ out.answer.text = st.healthcare_response_english

\* C14: when detection or translation fails the request goes on with the
\* original text as the English query and the language set to English, in
\* get_answer_for_text_query and in process_query.
C14_TranslationFailureContinues ==
    /\ (mode = "endpoint" /\ st.translation_failed) =>
          /\ st.english_query = inp.query
          /\ st.detected_language = "en"
          /\ pc = "done" => (out.is_greeting \/ st.retrieval_called \/ ~flags.FARMSTACK_AVAILABLE)
    /\ (mode = "process_query" /\ st.translation_failed) =>
          /\ st.query_in_english = inp.query
          /\ st.input_language_detected = "en"
          /\ pc = "done" => ~IsTechnicalErrorText(out.final_response.text)

(***************************************************************************)
(* A request of get_answer_for_text_query running while the user's medical *)
(* profile is updated by update_medical_profile.                           *)
(***************************************************************************)
MaxVersion == 2

\* update_medical_profile: the stored row is rewritten and profile_version
\* incremented in one transaction; without a row it changes nothing
ProfileUpdate ==
    /\ profileStore.profile.present
    /\ profileStore.version < MaxVersion
    /\ \E p \in RequestProfiles \ {NoProfile, profileStore.profile} :
        profileStore' = [profile |-> p, version |-> profileStore.version + 1]
    /\ UNCHANGED <<mode, pc, flags, inp, st, out>>

InitConcurrent ==
    /\ mode = "endpoint"
    /\ pc = "start"
    /\ flags \in {f \in EndpointFlags :
                    f.MEDICAL_FILTERING_AVAILABLE /\ f.USER_MODEL_AVAILABLE
                    /\ f.FARMSTACK_AVAILABLE /\ ~f.TRANSLATION_AVAILABLE}
    /\ profileStore \in StoreStates(RequestProfiles)
    /\ inp \in [email_given : BOOLEAN, query : {<<>>, <<"fever">>, <<"hello">>}]
    /\ st = EndpointLocals
    /\ out = <<>>

NextConcurrent == NextEndpoint \/ ProfileUpdate

SpecConcurrent == InitConcurrent /\ [][NextConcurrent]_vars

\* C15: the profile-dependent outputs of one request come from one snapshot
\* of the profile: the reads behind them never show two versions, whatever
\* updates run beside the request.
C15_SingleSnapshot ==
    (EndpointDone /\ RequiredInput) => Cardinality(st.versions_read) <= 1

\* ---------------------------------------------------------------------------
\* The content_filtered indicator of the response (lines 475-490)
\* ---------------------------------------------------------------------------

\* a filtering pass of this request returned fewer chunks than it was given:
\* the pass inside content_retrieval or the endpoint's own pass
ChunksRemoved ==
    \/ /\ st.retrieval_called
       /\ ~st.retrieval.raised
       /\ st.retrieval.medical_filtered
       /\ st.retrieval.filtered_chunk_count < st.retrieval.original_chunk_count
    \/ st.filter_removed

\* C16: the answer to a health query reports content_filtered exactly when
\* the safety filter removed at least one retrieved chunk in that request.
C16_ContentFilteredIffRemoved ==
    (EndpointDone /\ RequiredInput /\ ~out.is_greeting) =>
        (out.content_filtered <=> ChunksRemoved)

\* ---------------------------------------------------------------------------
\* Stage order of one request
\* ---------------------------------------------------------------------------

\* the steps of the strictly linear pipeline, as pairs of positions of the
\* handler: receive, normalize, profile lookup, retrieval, filter,
\* composition, localization and response
LinearSteps ==
    {<<"start", "normalize">>, <<"normalize", "profile">>, <<"profile", "retrieve">>,
     <<"retrieve", "filter">>, <<"filter", "generate">>, <<"generate", "respond">>,
     <<"respond", "done">>}

\* C17: a request with query text and email moves through the stages in the
\* fixed order, skipping none and reaching the end from no stage but the last.
C17_StagesInFixedOrder ==
    [][(mode = "endpoint" /\ RequiredInput) => <<pc, pc'>> \in LinearSteps]_vars

\* ---------------------------------------------------------------------------
\* Word matching and the avoid set of the filter (SpecFilter)
\* ---------------------------------------------------------------------------

\* term stands in text as a whole word or phrase: what lies just before and
\* just after the occurrence is not part of a word
OccursAsWholeWord(term, text) ==
    \E i \in 1..(Len(text) - Len(term) + 1) :
        /\ \A k \in 1..Len(term) : text[i + k - 1] = term[k]
        /\ (i = 1 \/ text[i - 1] \in NonWordAtoms)
        /\ (i + Len(term) > Len(text) \/ text[i + Len(term)] \in NonWordAtoms)

\* the filter read a profile that restricts something and was given text chunks
FilterApplied ==
    /\ FilterDone
    /\ flags.MEDICAL_DB_AVAILABLE
    /\ profileStore.profile.present
    /\ AvoidIngredients(profileStore.profile) # {}
    /\ AllStr(inp.content)

\* C18: with a non-empty avoid set, the chunks kept are exactly the input
\* chunks, in order, in whose lower-cased text no avoid-set term stands as a
\* whole word or phrase; a term inside a longer word drops nothing.
C18_DroppedIffWholeWordMatch ==
    FilterApplied =>
        LET avoid == AvoidIngredients(profileStore.profile)
            Kept(chunk) == \A term \in avoid : ~OccursAsWholeWord(term, Lower(chunk.atoms))
        IN /\ ~out.raised
           /\ out.safe = SelectSeq(inp.content, Kept)

\* C18 witness: "honeycomb" was kept and "Honey tea" dropped for diabetes
C18_Witness ==
    /\ FilterApplied
    /\ profileStore.profile.has_diabetes
    /\ inp.content = <<StrChunk(<<"honey", "comb">>), StrChunk(<<"Honey", " ", "tea">>)>>
    /\ out.safe = <<StrChunk(<<"honey", "comb">>)>>

\* the profile flag behind each key of the rule table
ConditionFlag ==
    [diabetes |-> "has_diabetes", hypertension |-> "has_hypertension",
     kidney_disease |-> "has_kidney_disease", pregnancy |-> "is_pregnant",
     heart_disease |-> "has_heart_disease"]

\* the rule sets of exactly the conditions whose flag is true on the profile
RuleTerms(profile) ==
    UNION {CONTRAINDICATED_INGREDIENTS[c] :
              c \in {k \in DOMAIN CONTRAINDICATED_INGREDIENTS : profile[ConditionFlag[k]]}}

\* the filter ran on a stored profile
FilterReadProfile ==
    /\ FilterDone
    /\ flags.MEDICAL_DB_AVAILABLE
    /\ profileStore.profile.present

\* C19 (amended): the avoid set is the union of the rule sets of exactly the
\* conditions whose flag is true, together with every allergy term listed on
\* the profile in lower case, and nothing else.
C19_AvoidSetIsUnionLowered ==
    FilterReadProfile =>
        LET profile == profileStore.profile
        IN AvoidIngredients(profile) =
            RuleTerms(profile)
            \cup {Lower(profile.allergies[i]) : i \in 1..Len(profile.allergies)}

\* C19 as stated: the allergy terms enter the avoid set as they are listed
C19_AvoidSetIsUnionVerbatim ==
    FilterReadProfile =>
        LET profile == profileStore.profile
        IN AvoidIngredients(profile) =
            RuleTerms(profile)
            \cup {profile.allergies[i] : i \in 1..Len(profile.allergies)}

\* C19 witness: a profile with diabetes and the allergy "Peanuts" met the
\* chunks "Peanuts for protein" and "Honey tea", and both were dropped
C19_Witness ==
    /\ FilterReadProfile
    /\ profileStore.profile.has_diabetes
    /\ ~profileStore.profile.has_hypertension
    /\ profileStore.profile.allergies = <<PeanutsTyped>>
    /\ inp.content = <<StrChunk(<<"Peanut", "s", " ", "for", " ", "protein">>),
                       StrChunk(<<"Honey", " ", "tea">>)>>
    /\ out.safe = <<>>

\* the boolean condition flags a stored profile carries
ConditionFlags ==
    {"has_diabetes", "has_hypertension", "has_heart_disease",
     "has_kidney_disease", "is_pregnant", "is_breastfeeding"}

\* how the disclaimer names the condition behind a flag
ConditionName ==
    [has_diabetes |-> "diabetes", has_hypertension |-> "high blood pressure",
     has_heart_disease |-> "heart condition", has_kidney_disease |-> "kidney disease",
     is_pregnant |-> "pregnancy"]

\* the categories that put terms into the avoid set of the profile: the keys
\* of the rule table whose flag is true, and the allergies when any is listed
TriggeredCategories(profile) ==
    {k \in DOMAIN CONTRAINDICATED_INGREDIENTS : profile[ConditionFlag[k]]}
    \cup (IF profile.allergies # <<>> THEN {"allergies"} ELSE {})

\* C20: the filter's disclaimer is non-empty exactly when the profile has a
\* true condition flag or a non-empty allergy list; a non-empty disclaimer
\* names every condition considered; the warnings hold one entry per
\* triggered category, whatever matched.
C20_DisclaimerAndWarnings ==
    (FilterReadProfile /\ AllStr(inp.content)) =>
        LET profile == profileStore.profile
        IN /\ ~out.raised
           /\ (out.disclaimer # <<>>) <=>
                  \/ \E f \in ConditionFlags : profile[f]
                  \/ profile.allergies # <<>>
           /\ out.disclaimer # <<>> =>
                  /\ \A f \in DOMAIN ConditionName :
                         profile[f] => Contains(out.disclaimer, <<ConditionName[f]>>)
                  /\ profile.allergies # <<>> => Contains(out.disclaimer, <<"allergies to">>)
           /\ Len(out.warnings) = Cardinality(TriggeredCategories(profile))

\* ---------------------------------------------------------------------------
\* The sources of content_retrieval (SpecRetrieval)
\* ---------------------------------------------------------------------------

\* the primary source handed back a list with at least one chunk in it
PrimaryYieldedChunk ==
    LET v == RetrieveFromFarmstackApi(inp.primary)
    IN v.k = "list" /\ Len(v.items) > 0

\* C21: with the local corpus loaded, the fallback is queried exactly when
\* the primary source yielded no chunk, and a primary source that yielded a
\* chunk is the recorded source.
C21_FallbackIffPrimaryEmpty ==
    (RetrievalDone /\ flags.LOCAL_CONTENT_AVAILABLE) =>
        /\ out.local_queried <=> ~PrimaryYieldedChunk
        /\ PrimaryYieldedChunk => (~out.raised /\ out.source = "farmstack")

(***************************************************************************)
(* The normalizer on its own: SpecNormalize draws a message and what the   *)
(* translation service would answer, and calls                             *)
(* detect_language_and_translate_to_english once.                          *)
(***************************************************************************)
\* messages: dictionary keys as typed, capitalised, padded with blanks, a
\* phrase, and texts the dictionary does not know
NormalizePool ==
    {<<"jwara">>, <<"Jwara">>, <<" ", "jwara", " ">>, <<"jwara", " ", "ide">>,
     <<"sardi">>, <<"bukhar">>, <<"fever">>, <<"jwara", " ", "hai">>}

\* answers of translate_client: detect_language gives a language code and a
\* confidence (below_floor: the confidence is under the floor), or raises;
\* translate gives a text or raises
NormalizeAnswers ==
    {[detect |-> "raise", below_floor |-> FALSE, english |-> <<>>, translate_raises |-> FALSE]}
    \cup [detect : {"en", "hi", "kn"}, below_floor : BOOLEAN,
          english : {<<"fever">>, <<"I", " ", "have", " ", "fever">>},
          translate_raises : BOOLEAN]

InitNormalize ==
    /\ mode = "normalize"
    /\ pc = "call"
    /\ flags = [TRANSLATION_AVAILABLE |-> TRUE]
    /\ profileStore \in StoreStates({NoProfile})
    /\ inp \in [input_msg : NormalizePool, svc : NormalizeAnswers]
    /\ st = <<>>
    /\ out = <<>>

\* one call of detect_language_and_translate_to_english(input_msg)
NormalizeCall ==
    /\ mode = "normalize"
    /\ pc = "call"
    /\ out' = DetectLanguageAndTranslateToEnglish(inp.input_msg, inp.svc)
    /\ pc' = "done"
    /\ UNCHANGED <<mode, flags, profileStore, inp, st>>

NextNormalize == NormalizeCall

SpecNormalize == InitNormalize /\ [][NextNormalize]_vars

NormalizeDone == mode = "normalize" /\ pc = "done"

\* the dictionary entries whose key is the trimmed message, as typed or
\* lower-cased
DictionaryMatches(text) ==
    {e \in KANNADA_MEDICAL_PHRASES : e[1] = Strip(text) \/ e[1] = Lower(Strip(text))}

\* C22: a message whose trimmed text is a key of the phrase dictionary, as
\* typed or in lower case, comes back as the dictionary's phrase with neither
\* detect nor translate called; the service is called only without a match.
C22_DictionaryFirst ==
    NormalizeDone =>
        /\ \A e \in DictionaryMatches(inp.input_msg) :
               /\ ~out.raised
               /\ out.text = e[2]
               /\ ~out.detect_called
               /\ ~out.translate_called
        /\ (out.detect_called \/ out.translate_called) =>
               DictionaryMatches(inp.input_msg) = {}

\* C22 witness: "Jwara" came back as "fever" without a call of the service
C22_Witness ==
    /\ NormalizeDone
    /\ inp.input_msg = <<"Jwara">>
    /\ inp.svc.detect = "hi"
    /\ out.text = <<"fever">>
    /\ ~out.detect_called

\* C23: when the detector's confidence is under the floor, translate is not
\* called and the message comes back unchanged as English, whatever code the
\* detector gave.
C23_LowConfidenceNotTranslated ==
    (NormalizeDone /\ out.detect_called /\ inp.svc.detect # "raise" /\ inp.svc.below_floor) =>
        /\ ~out.translate_called
        /\ ~out.raised
        /\ out.text = inp.input_msg
        /\ out.lang = "en"

\* ---------------------------------------------------------------------------
\* Generation that fails while safe chunks are at hand (Spec)
\* ---------------------------------------------------------------------------

\* text quotes one of the chunks after some preamble
QuotesAChunk(text, chunks) ==
    \E i \in 1..Len(chunks) :
        /\ chunks[i].str
        /\ Contains(text, chunks[i].atoms)
        /\ ~Prefix(text, Len(chunks[i].atoms)) = chunks[i].atoms

\* the endpoint went through its generation step with text chunks, and the
\* generation service was not available, raised or answered without a text
EndpointGenerationFailed ==
    /\ mode = "endpoint"
    /\ pc \in {"respond", "done"}
    /\ TruthyValue(st.retrieved_content)
    /\ AllStr(st.retrieved_content.items)
    /\ ~st.filter_raised
    /\ (~flags.GENERATION_AVAILABLE \/ (st.generation_called /\ st.generation_failed))

\* execute_rag_pipeline went through its generation step with text chunks,
\* and the generation service raised or answered without a text
RagGenerationFailed ==
    /\ mode = "process_query"
    /\ pc = "postprocess"
    /\ st.generation_called
    /\ st.generation_failed
    /\ AllStr(st.retrieved_chunks_data.items)

\* C24: with safe chunks at hand and a generation that fails, is unavailable
\* or gives no text, the answer quotes a safe chunk after a preamble, in the
\* endpoint and in execute_rag_pipeline alike.
C24_FailedGenerationQuotesChunk ==
    /\ EndpointGenerationFailed =>
           QuotesAChunk(st.healthcare_response_english, st.retrieved_content.items)
    /\ RagGenerationFailed =>
           QuotesAChunk(st.response_map.generated_final_response,
                        st.retrieved_chunks_data.items)

\* ---------------------------------------------------------------------------
\* Follow-up suggestions of process_query (Spec)
\* ---------------------------------------------------------------------------

\* process_query returned after handing the query to execute_rag_pipeline
\* as its first choice
ProcessQueryAnswered ==
    /\ mode = "process_query"
    /\ pc = "done"
    /\ flags.UTILS_LOCAL_CONTENT_AVAILABLE
    /\ st.rag_called

\* the answer returned was made from retrieved content
ContentDerivedAnswer ==
    /\ st.rag_called
    /\ st.generation_called
    /\ ~st.generation_failed
    /\ ~st.translation_failed
    /\ ~st.postprocess_failed

\* C25: process_query returns the condition-aware follow-ups exactly when
\* the answer was made from content, and a generic fallback set whenever no
\* content was retrieved or the pipeline failed.
C25_FollowUpsMatchPath ==
    ProcessQueryAnswered =>
        /\ (out.follow_up_questions = HealthcareFollowUps) <=> ContentDerivedAnswer
        /\ ~ContentDerivedAnswer =>
               out.follow_up_questions \in {GeneralFollowUps, UrgentFollowUps}

(***************************************************************************)
(* healthcare/pdf_content_handler.py: the module-level pdf_handler and its *)
(* remedies_db, shared by the requests of one process.  SpecCorpus runs    *)
(* get_remedies_for_condition for several requests at once.                *)
(***************************************************************************)
MaxRequests == 2

Requests == 1..MaxRequests

\* the conditions _parse_remedies finds in the guide, in the order of its
\* lines; each becomes a key of remedies_db
PdfConditions == <<"fever", "headache", "cough", "cold", "sore throat">>

\* remedies_db once _parse_remedies has run to its end
FullIndex == {PdfConditions[i] : i \in 1..Len(PdfConditions)}

\* pdf_handler after HealthcarePDFHandler.__init__ (lines 13-16, 188), and
\* for each request how many keys its own _parse_remedies has stored
InitCorpus ==
    /\ mode = "corpus"
    /\ pc = [r \in Requests |-> "start"]
    /\ flags = [HEALTHCARE_PDF_AVAILABLE |-> TRUE]
    /\ profileStore \in StoreStates({NoProfile})
    /\ inp \in [pdf_readable : BOOLEAN]
    /\ st = [content_loaded |-> FALSE, remedies_db |-> {},
             stored |-> [r \in Requests |-> 0]]
    /\ out = [r \in Requests |-> {}]

\* lines 134-135: `if not self.remedies_db: self.extract_and_process_content()`;
\* lines 44-60: the guide is read, or open() raises and False is returned
CorpusCheck(r) ==
    /\ mode = "corpus"
    /\ pc[r] = "start"
    /\ IF st.remedies_db # {}
        THEN /\ pc' = [pc EXCEPT ![r] = "lookup"]
             /\ st' = st
        ELSE IF inp.pdf_readable
        THEN /\ pc' = [pc EXCEPT ![r] = "parse"]
             /\ st' = [st EXCEPT !.content_loaded = TRUE]
        ELSE /\ pc' = [pc EXCEPT ![r] = "lookup"]
             /\ st' = st
    /\ UNCHANGED <<mode, flags, profileStore, inp, out>>

\* _parse_remedies, lines 82-96: one `self.remedies_db[current_condition] =
\* current_remedies`, in the order of the guide
CorpusParseStep(r) ==
    /\ mode = "corpus"
    /\ pc[r] = "parse"
    /\ LET k == st.stored[r] + 1
       IN /\ st' = [st EXCEPT !.remedies_db = @ \cup {PdfConditions[k]},
                              !.stored[r] = k]
          /\ pc' = [pc EXCEPT ![r] = IF k = Len(PdfConditions) THEN "lookup" ELSE "parse"]
    /\ UNCHANGED <<mode, flags, profileStore, inp, out>>

\* lines 144-181: the strategies read self.remedies_db; out[r] is the set of
\* keys the request found there
CorpusLookup(r) ==
    /\ mode = "corpus"
    /\ pc[r] = "lookup"
    /\ out' = [out EXCEPT ![r] = st.remedies_db]
    /\ pc' = [pc EXCEPT ![r] = "done"]
    /\ UNCHANGED <<mode, flags, profileStore, inp, st>>

NextCorpus ==
    \E r \in Requests : CorpusCheck(r) \/ CorpusParseStep(r) \/ CorpusLookup(r)

SpecCorpus == InitCorpus /\ [][NextCorpus]_vars

\* C26: no request reads what another is still writing: every request, the
\* first ones after start included, finds the same fully built index.
C26_IndexReadWhole ==
    (mode = "corpus" /\ inp.pdf_readable) =>
        \A r \in Requests : pc[r] = "done" => out[r] = FullIndex

(***************************************************************************)
(* C27: the filter applied to its own output.                              *)
(***************************************************************************)
\* the endpoint's own pass ran on chunks that content_retrieval had filtered
SecondPassRan == mode = "endpoint" /\ st.retrieval_called /\ st.filter_called

\* the endpoint's pass narrowed the list it was given
SecondPassRemoved == st.filter_removed \/ st.filter_removed_all

AllergyTerms(profile) == {profile.allergies[i] : i \in 1..Len(profile.allergies)}

\* profile q has every true condition flag and every allergy term of p
ProfileExtends(q, p) ==
    /\ \A f \in ConditionFlags : p[f] => q[f]
    /\ AllergyTerms(p) \subseteq AllergyTerms(q)

\* the profiles the two users of SpecMonotone have: stored profiles with any
\* of diabetes, hypertension, heart disease and an allergy list
MonotoneProfiles ==
    {p \in ProfilePool :
        p.present /\ ~p.has_kidney_disease /\ ~p.is_pregnant /\ ~p.is_breastfeeding}

\* SpecMonotone draws a chunk list and the profiles p and q of two users,
\* q extending p, and calls filter_content_by_medical_profile for each
InitMonotone ==
    /\ mode = "monotone"
    /\ pc = "call"
    /\ flags \in [MEDICAL_DB_AVAILABLE : BOOLEAN]
    /\ profileStore \in StoreStates({NoProfile})
    /\ inp \in {i \in [content : ChunkLists(FilterChunkPool, MaxChunks),
                        p : MonotoneProfiles, q : MonotoneProfiles] :
                    ProfileExtends(i.q, i.p)}
    /\ st = <<>>
    /\ out = <<>>

\* filter_content_by_medical_profile(content, user_id) for the user with
\* profile p and for the user with profile q
MonotoneCalls ==
    /\ mode = "monotone"
    /\ pc = "call"
    /\ out' = [for_p |-> FilterContentByMedicalProfile(inp.content,
                              flags.MEDICAL_DB_AVAILABLE, inp.p),
               for_q |-> FilterContentByMedicalProfile(inp.content,
                              flags.MEDICAL_DB_AVAILABLE, inp.q)]
    /\ pc' = "done"
    /\ UNCHANGED <<mode, flags, profileStore, inp, st>>

NextMonotone == MonotoneCalls

SpecMonotone == InitMonotone /\ [][NextMonotone]_vars

MonotoneDone == mode = "monotone" /\ pc = "done"

\* C28: when profile q has every true condition flag and every allergy term
\* of profile p, then for every chunk list for which the filter returns
\* under q it returns under p as well, and the safe chunks for q are a
\* subsequence of the safe chunks for p.
C28_MonotoneInProfile ==
    (MonotoneDone /\ ~out.for_q.raised) =>
        /\ ~out.for_p.raised
        /\ IsSubsequence(out.for_q.safe, out.for_p.safe)

\* C28 witness: with diabetes alone "Peanuts for protein" is safe; the
\* profile that adds the allergy "peanuts" loses that chunk as well
C28_Witness ==
    /\ MonotoneDone
    /\ flags.MEDICAL_DB_AVAILABLE
    /\ inp.p.has_diabetes /\ inp.p.allergies = <<>>
    /\ inp.q.has_diabetes /\ inp.q.allergies = <<PeanutsTerm>>
    /\ inp.content = <<StrChunk(<<"Honey", " ", "tea">>),
                       StrChunk(<<"Peanut", "s", " ", "for", " ", "protein">>)>>
    /\ out.for_p.safe = <<StrChunk(<<"Peanut", "s", " ", "for", " ", "protein">>)>>
    /\ out.for_q.safe = <<>>

(***************************************************************************)
(* C29: the fields of content_retrieval's response map.                    *)
(***************************************************************************)
\* the primary source handed back content (anything truthy)
PrimaryYielded == TruthyValue(RetrieveFromFarmstackApi(inp.primary))

\* the fallback source was asked and handed back content
FallbackYielded ==
    /\ ~PrimaryYielded
    /\ flags.LOCAL_CONTENT_AVAILABLE
    /\ inp.local.outcome = "list"
    /\ Len(inp.local.items) > 0

\* C29: in every response map that content_retrieval returns,
\* filtered_chunk_count is at most original_chunk_count; success is true
\* exactly when retrieved_chunks is a non-empty list; source names the
\* source that yielded the content, or "none"; and medical_filtered is true
\* only if content was retrieved, filtering was asked for and a user id was
\* resolved.
C29_ResponseMapConsistent ==
    (RetrievalDone /\ ~out.raised) =>
        /\ out.filtered_chunk_count <= out.original_chunk_count
        /\ out.success <=>
               (out.retrieved_chunks.k = "list" /\ Len(out.retrieved_chunks.items) > 0)
        /\ out.source = "farmstack" <=> PrimaryYielded
        /\ out.source = "local" <=> FallbackYielded
        /\ out.source = "none" <=> (~PrimaryYielded /\ ~FallbackYielded)
        /\ out.medical_filtered =>
               /\ PrimaryYielded \/ FallbackYielded
               /\ inp.apply_medical_filter
               /\ out.user_id_found

(***************************************************************************)
(* medical/medical_db_operations.py: create, update and delete of a        *)
(* user's profile row with the audit log.  SpecProfileDb runs the three     *)
(* operations for one user from two sessions of the web service.  Each      *)
(* `with db_conn.atomic()` block commits all of its writes or none; the     *)
(* database is PostgreSQL (database/migrate.py:27), whose transactions read  *)
(* the rows as committed at the time of the SELECT.                         *)
(***************************************************************************)
MaxOps == 4

Sessions == {"a", "b"}

NoRow == [id |-> 0, profile_version |-> 0, is_deleted |-> FALSE, has_diabetes |-> FALSE]

\* how a block ends: all statements pass, the profile statement raises, or
\* MedicalProfileAuditLog.create raises
BlockOutcomes == {"ok", "profile_raises", "audit_raises"}

AuditEntry(action, profile_version) == [action |-> action, profile_version |-> profile_version]

InitProfileDb ==
    /\ mode = "profiledb"
    /\ pc = [s \in Sessions |-> "idle"]
    /\ flags = [MEDICAL_DB_AVAILABLE |-> TRUE]
    /\ profileStore = [row |-> NoRow, audit |-> <<>>, rows_created |-> 0]
    /\ inp = <<>>
    /\ st = [started |-> 0, profile |-> [s \in Sessions |-> NoRow]]
    /\ out = [changes |-> 0, row_updates |-> 0]

\* create_medical_profile, lines 101-150: UserMedicalProfile.create with
\* profile_version=1 and the audit entry in one block; a second row for the
\* user is refused by the table
CreateMedicalProfile(s) ==
    /\ mode = "profiledb"
    /\ pc[s] = "idle"
    /\ st.started < MaxOps
    /\ \E outcome \in BlockOutcomes, has_diabetes \in BOOLEAN :
        IF outcome = "ok" /\ profileStore.row = NoRow
            THEN /\ profileStore' =
                        [row |-> [id |-> profileStore.rows_created + 1, profile_version |-> 1,
                                  is_deleted |-> FALSE, has_diabetes |-> has_diabetes],
                         audit |-> Append(profileStore.audit, AuditEntry("CREATE", 1)),
                         rows_created |-> profileStore.rows_created + 1]
                 /\ out' = [changes |-> out.changes + 1, row_updates |-> 0]
            ELSE UNCHANGED <<profileStore, out>>
    /\ st' = [st EXCEPT !.started = @ + 1]
    /\ UNCHANGED <<mode, pc, flags, inp>>

\* line 168 (update) and line 246 (delete): UserMedicalProfile.get inside the
\* block; DoesNotExist leaves the operation
ProfileGet(s, op) ==
    /\ mode = "profiledb"
    /\ pc[s] = "idle"
    /\ st.started < MaxOps
    /\ IF profileStore.row = NoRow
        THEN /\ st' = [st EXCEPT !.started = @ + 1]
             /\ pc' = pc
        ELSE /\ st' = [st EXCEPT !.started = @ + 1, !.profile[s] = profileStore.row]
             /\ pc' = [pc EXCEPT ![s] = op]
    /\ UNCHANGED <<mode, flags, profileStore, inp, out>>

\* whether the row the session read is still the user's row
RowStillThere(s) ==
    profileStore.row # NoRow /\ profileStore.row.id = st.profile[s].id

\* update_medical_profile, lines 170-216: the fields are set on the object
\* that was read, profile_version += 1, profile.save() writes the object's
\* fields to the row with its id, and the audit entry follows
UpdateMedicalProfile(s) ==
    /\ mode = "profiledb"
    /\ pc[s] = "update"
    /\ \E outcome \in BlockOutcomes, has_diabetes \in BOOLEAN :
        LET profile == [st.profile[s] EXCEPT !.has_diabetes = has_diabetes,
                                            !.profile_version = @ + 1]
        IN IF outcome = "ok"
            THEN /\ profileStore' =
                        [profileStore EXCEPT
                            !.row = IF RowStillThere(s) THEN profile ELSE @,
                            !.audit = Append(@, AuditEntry("UPDATE", profile.profile_version))]
                 /\ out' = IF RowStillThere(s)
                            THEN [changes |-> out.changes + 1,
                                  row_updates |-> out.row_updates + 1]
                            ELSE out
            ELSE UNCHANGED <<profileStore, out>>
    /\ pc' = [pc EXCEPT ![s] = "idle"]
    /\ st' = [st EXCEPT !.profile[s] = NoRow]
    /\ UNCHANGED <<mode, flags, inp>>

\* delete_medical_profile, lines 248-266: delete_instance(), or is_deleted
\* set on the object that was read and profile.save(); then the audit entry
DeleteMedicalProfile(s) ==
    /\ mode = "profiledb"
    /\ pc[s] = "delete"
    /\ \E outcome \in BlockOutcomes, hard_delete \in BOOLEAN :
        LET profile == [st.profile[s] EXCEPT !.is_deleted = TRUE]
        IN IF outcome = "ok"
            THEN /\ profileStore' =
                        [profileStore EXCEPT
                            !.row = IF ~RowStillThere(s) THEN @
                                    ELSE IF hard_delete THEN NoRow ELSE profile,
                            !.audit = Append(@, AuditEntry(IF hard_delete THEN "HARD_DELETE"
                                                           ELSE "SOFT_DELETE", 0))]
                 /\ out' = IF RowStillThere(s)
                            THEN [out EXCEPT !.changes = @ + 1]
                            ELSE out
            ELSE UNCHANGED <<profileStore, out>>
    /\ pc' = [pc EXCEPT ![s] = "idle"]
    /\ st' = [st EXCEPT !.profile[s] = NoRow]
    /\ UNCHANGED <<mode, flags, inp>>

NextProfileDb ==
    \E s \in Sessions :
        \/ CreateMedicalProfile(s)
        \/ ProfileGet(s, "update")
        \/ ProfileGet(s, "delete")
        \/ UpdateMedicalProfile(s)
        \/ DeleteMedicalProfile(s)

SpecProfileDb == InitProfileDb /\ [][NextProfileDb]_vars

\* C30: every committed profile change has exactly one audit entry and no
\* entry stands without one (out.changes counts the committed changes), and
\* the row's profile_version is 1 plus the number of updates committed on it
\* since its creation (out.row_updates).
C30_AuditAndVersion ==
    mode = "profiledb" =>
        /\ Len(profileStore.audit) = out.changes
        /\ profileStore.row # NoRow =>
               profileStore.row.profile_version = 1 + out.row_updates

====
